---- MODULE Spec2Model ----
(***************************************************************************)
(* A model of EnhancedMap (src/src/index.ts): an in-memory Map whose       *)
(* entries are mirrored to an sqlite table, with path-addressed access,    *)
(* a clone policy and array/number helpers.                                *)
(*                                                                         *)
(* JavaScript values are modelled with object identity: a value is either  *)
(* a primitive or a reference into a heap of objects and arrays, so that   *)
(* "the same object" and "a copy" are different things.  The text stored   *)
(* in the sqlite table is modelled as a tree without identity.             *)
(***************************************************************************)
EXTENDS Integers, Sequences, FiniteSets, TLC

(***************************************************************************)
(* Bounds of the model.                                                    *)
(***************************************************************************)
\* Longest array an operation may produce.
MaxLen == 2
\* Largest number an arithmetic operation may produce.
MaxNum == 3
\* Which backing-store write of one call may throw: 0 (none) .. MaxFail.
MaxFail == 2
\* Calls of the store's methods, and changes the caller makes, in one run.
MaxCalls == 3

Keys == {"a", "b"}
KeySeq == <<"a", "b">>
\* Property names, in the order objects are traversed.
FieldSeq == <<"0", "1", "2", "3", "p", "q">>
FieldNames == {FieldSeq[i] : i \in 1..Len(FieldSeq)}
IndexSegs == {"0", "1", "2", "3"}

(***************************************************************************)
(* Values.  [t, v]: t is the runtime type, v the number or the address.    *)
(***************************************************************************)
Undef == [t |-> "undefined", v |-> 0]
Null == [t |-> "null", v |-> 0]
Num(n) == [t |-> "Number", v |-> n]
Ref(a) == [t |-> "ref", v |-> a]
IsRef(x) == x.t = "ref"
\* lodash isNil
isNil(x) == x.t \in {"undefined", "null"}

NoFields == [n \in {} |-> Undef]
NewObject == [kind |-> "Object", f |-> NoFields, e |-> <<>>]
NewArray == [kind |-> "Array", f |-> NoFields, e |-> <<>>]

\* The property names of an array's elements, by position.
SpreadIndex == <<"0", "1", "2", "3">>
IndexOfName(n) == CHOOSE i \in DOMAIN SpreadIndex : SpreadIndex[i] = n

\* lodash isObject
isObject(x) == IsRef(x)
isArray(h, x) == IsRef(x) /\ h[x.v].kind = "Array"

\* value.constructor.name ("" where value?.constructor is undefined)
ConstructorName(h, x) ==
  IF IsRef(x) THEN h[x.v].kind
  ELSE IF isNil(x) THEN "" ELSE x.t

IndexOf(seg) ==
  CASE seg = "0" -> 0 [] seg = "1" -> 1 [] seg = "2" -> 2 [] seg = "3" -> 3 [] OTHER -> -1
isIndex(seg) == seg \in IndexSegs

PosIn(s, x) == CHOOSE i \in 1..Len(s) : s[i] = x
InSeq(s, x) == \E i \in 1..Len(s) : s[i] = x
\* The own property names of an object, in traversal order.
NamesOf(f) ==
  LET Has(n) == n \in DOMAIN f
  IN SelectSeq(FieldSeq, Has)

(***************************************************************************)
(* Trees: a value without identity.  Used for what a value looks like      *)
(* (structural equality) and for the text of a row.                        *)
(***************************************************************************)
Leaf(x) == [t |-> x.t, v |-> x.v, f |-> NoFields, e |-> <<>>]
IsLeaf(tr) == tr.t \notin {"Object", "Array"}
\* A marker that is no tree of a value: "there is no entry".
Absent == [t |-> "absent", v |-> 0, f |-> NoFields, e |-> <<>>]

RECURSIVE View(_, _)
View(h, x) ==
  IF ~IsRef(x) THEN Leaf(x)
  ELSE LET o == h[x.v]
       IN [t |-> o.kind, v |-> 0,
           f |-> [n \in DOMAIN o.f |-> View(h, o.f[n])],
           e |-> [i \in DOMAIN o.e |-> View(h, o.e[i])]]

RECURSIVE Build(_, _), BuildAll(_, _)
\* Allocate fresh objects for a tree: [h, v], the new heap and the value.
Build(h, tr) ==
  IF IsLeaf(tr) THEN [h |-> h, v |-> [t |-> tr.t, v |-> tr.v]]
  ELSE LET names == NamesOf(tr.f)
           fr == BuildAll(h, [i \in 1..Len(names) |-> tr.f[names[i]]])
           er == BuildAll(fr.h, tr.e)
           o == [kind |-> tr.t,
                 f |-> [n \in DOMAIN tr.f |-> fr.vs[PosIn(names, n)]],
                 e |-> er.vs]
       IN [h |-> Append(er.h, o), v |-> Ref(Len(er.h) + 1)]
BuildAll(h, trs) ==
  IF trs = <<>> THEN [h |-> h, vs |-> <<>>]
  ELSE LET r1 == Build(h, Head(trs))
           r2 == BuildAll(r1.h, Tail(trs))
       IN [h |-> r2.h, vs |-> <<r1.v>> \o r2.vs]

(***************************************************************************)
(* The heap is kept in a canonical form: exactly the objects reachable     *)
(* from the roots, numbered in the order a depth-first walk meets them.    *)
(***************************************************************************)
Children(o) ==
  LET names == NamesOf(o.f)
  IN [i \in 1..Len(names) |-> o.f[names[i]]] \o o.e

RECURSIVE Walk(_, _, _)
Walk(h, todo, seen) ==
  IF todo = <<>> THEN seen
  ELSE LET x == Head(todo)
       IN IF ~IsRef(x) \/ InSeq(seen, x.v) THEN Walk(h, Tail(todo), seen)
          ELSE Walk(h, Children(h[x.v]) \o Tail(todo), Append(seen, x.v))

Reachable(h, roots) == LET w == Walk(h, roots, <<>>) IN {w[i] : i \in 1..Len(w)}

Renamed(order, x) == IF IsRef(x) THEN Ref(PosIn(order, x.v)) ELSE x

Normalize(h, roots) ==
  LET order == Walk(h, roots, <<>>)
      Ren(x) == Renamed(order, x)
  IN [h |-> [i \in 1..Len(order) |->
               LET o == h[order[i]]
               IN [kind |-> o.kind,
                   f |-> [n \in DOMAIN o.f |-> Ren(o.f[n])],
                   e |-> [j \in DOMAIN o.e |-> Ren(o.e[j])]]],
      roots |-> [i \in DOMAIN roots |-> Ren(roots[i])]]

(***************************************************************************)
(* lodash clone, cloneDeep, get, set, has over the heap.                   *)
(***************************************************************************)
\* cloneDeep: a fresh copy of the whole structure.  Named properties of an
\* array are not copied (only its elements are).
RECURSIVE CloneTree(_)
CloneTree(tr) ==
  IF IsLeaf(tr) THEN tr
  ELSE [t |-> tr.t, v |-> 0,
        f |-> IF tr.t = "Array" THEN NoFields
              ELSE [n \in DOMAIN tr.f |-> CloneTree(tr.f[n])],
        e |-> [i \in DOMAIN tr.e |-> CloneTree(tr.e[i])]]

\* clone: a fresh top-level container whose fields are the same values.
clone(h, x) ==
  IF ~IsRef(x) THEN [h |-> h, v |-> x]
  ELSE LET o == h[x.v]
           c == [kind |-> o.kind,
                 f |-> IF o.kind = "Array" THEN NoFields ELSE o.f,
                 e |-> o.e]
       IN [h |-> Append(h, c), v |-> Ref(Len(h) + 1)]

\* A cloneDeep that copies the top level only.
cloneDeep_topLevelOnly(h, x) == clone(h, x)
cloneDeep(h, x) == Build(h, CloneTree(View(h, x)))

\* object[seg]
Prop(h, x, seg) ==
  IF ~IsRef(x) THEN Undef
  ELSE LET o == h[x.v]
       IN IF o.kind = "Array" /\ isIndex(seg)
          THEN IF IndexOf(seg) < Len(o.e) THEN o.e[IndexOf(seg) + 1] ELSE Undef
          ELSE IF seg \in DOMAIN o.f THEN o.f[seg] ELSE Undef

\* seg in object
HasProp(h, x, seg) ==
  /\ IsRef(x)
  /\ LET o == h[x.v]
     IN IF o.kind = "Array" /\ isIndex(seg) THEN IndexOf(seg) < Len(o.e)
        ELSE seg \in DOMAIN o.f

\* object[seg] = x, in place
Assign(h, a, seg, x) ==
  LET o == h[a]
  IN IF o.kind = "Array" /\ isIndex(seg)
     THEN [h EXCEPT ![a].e =
             [j \in 1..(IF IndexOf(seg) < Len(o.e) THEN Len(o.e) ELSE IndexOf(seg) + 1) |->
                IF j = IndexOf(seg) + 1 THEN x
                ELSE IF j <= Len(o.e) THEN o.e[j] ELSE Undef]]
     ELSE [h EXCEPT ![a].f = (seg :> x) @@ o.f]

\* delete object[seg], in place
Unassign(h, a, seg) ==
  LET o == h[a]
  IN IF o.kind = "Array" /\ isIndex(seg)
     THEN IF IndexOf(seg) < Len(o.e)
          THEN [h EXCEPT ![a].e[IndexOf(seg) + 1] = Undef]
          ELSE h
     ELSE [h EXCEPT ![a].f = [n \in DOMAIN o.f \ {seg} |-> o.f[n]]]

\* array.splice(i, 1), in place (i counted from 0)
Splice(h, a, i) ==
  LET e == h[a].e
  IN IF i < 0 \/ i >= Len(e) THEN h
     ELSE [h EXCEPT ![a].e = [j \in 1..(Len(e) - 1) |-> IF j <= i THEN e[j] ELSE e[j + 1]]]

\* _.get(object, path)
RECURSIVE _get(_, _, _)
_get(h, x, path) ==
  IF path = <<>> THEN x
  ELSE IF isNil(x) THEN Undef
  ELSE _get(h, Prop(h, x, Head(path)), Tail(path))

\* _.has(object, path)
RECURSIVE _has(_, _, _)
_has(h, x, path) ==
  IF path = <<>> THEN FALSE
  ELSE /\ HasProp(h, x, Head(path))
       /\ Len(path) = 1 \/ _has(h, Prop(h, x, Head(path)), Tail(path))

\* _.set(object, path, value): the heap after the write.  Not an object:
\* nothing is written.  A missing or primitive intermediate is replaced by
\* a new array when the next segment is an index, else by a new object.
RECURSIVE SetAt(_, _, _, _)
SetAt(h, a, path, x) ==
  IF Len(path) = 1 THEN Assign(h, a, Head(path), x)
  ELSE LET cur == Prop(h, Ref(a), Head(path))
       IN IF isObject(cur) THEN SetAt(h, cur.v, Tail(path), x)
          ELSE LET fresh == IF isIndex(path[2]) THEN NewArray ELSE NewObject
                   h1 == Append(h, fresh)
                   h2 == Assign(h1, a, Head(path), Ref(Len(h1)))
               IN SetAt(h2, Len(h1), Tail(path), x)

\* A set that writes under the first segment whatever follows it.
_set_firstSegment(h, obj, path, x) ==
  IF ~isObject(obj) \/ path = <<>> THEN h ELSE Assign(h, obj.v, Head(path), x)
_set(h, obj, path, x) ==
  IF ~isObject(obj) \/ path = <<>> THEN h ELSE SetAt(h, obj.v, path, x)

(***************************************************************************)
(* The text of a row: serialize-javascript's output, read back by eval.    *)
(* serialize goes through JSON.stringify, which writes an array's elements *)
(* and none of its named properties.                                       *)
(***************************************************************************)
RECURSIVE serialize(_)
serialize(tr) ==
  CASE tr.t = "Object" ->
         [t |-> "{}", v |-> 0, f |-> [n \in DOMAIN tr.f |-> serialize(tr.f[n])], e |-> <<>>]
    [] tr.t = "Array" ->
         [t |-> "[]", v |-> 0, f |-> NoFields, e |-> [i \in DOMAIN tr.e |-> serialize(tr.e[i])]]
    [] tr.t = "Number" -> [t |-> "numeral", v |-> tr.v, f |-> NoFields, e |-> <<>>]
    [] OTHER -> [t |-> tr.t, v |-> 0, f |-> NoFields, e |-> <<>>]

\* eval(`(${text})`): the value the text denotes, as a tree.
RECURSIVE eval(_)
eval(tx) ==
  CASE tx.t = "{}" ->
         [t |-> "Object", v |-> 0, f |-> [n \in DOMAIN tx.f |-> eval(tx.f[n])], e |-> <<>>]
    [] tx.t = "[]" ->
         [t |-> "Array", v |-> 0, f |-> NoFields, e |-> [i \in DOMAIN tx.e |-> eval(tx.e[i])]]
    [] tx.t = "numeral" -> [t |-> "Number", v |-> tx.v, f |-> NoFields, e |-> <<>>]
    [] OTHER -> [t |-> tx.t, v |-> 0, f |-> NoFields, e |-> <<>>]

(***************************************************************************)
(* The store.  A method is an operator from the store s to a result        *)
(* [s, ret, err]: the store after the call, the value returned and the     *)
(* error thrown ("" when the call returned).                               *)
(*   s.heap, s.cache, s.db, s.counter, s.isDestroyed, s.changedCB,         *)
(*   s.persistent, s.autoFetch, s.default, s.cloneLevel: the instance;     *)
(*   s.calls: the change callback's invocations during this call;          *)
(*   s.failIn: the backing-store write of this call that throws (0: none). *)
(***************************************************************************)
This == [t |-> "this", v |-> 0]
Bool(b) == [t |-> "Boolean", v |-> IF b THEN 1 ELSE 0]
\* The strings autonum can return.
Str(id) == [t |-> "String", v |-> id]
StrObjectObject1 == Str(1)
StrNaN == Str(2)

Ok(s, ret) == [s |-> s, ret |-> ret, err |-> ""]
Throw(s, e) == [s |-> s, ret |-> Undef, err |-> e]
\* Continue with F unless r threw.
Then(r, F(_)) == IF r.err # "" THEN r ELSE F(r)

NoPath == <<>>
NoRows == [k \in {} |-> Absent]
NoEntries == [k \in {} |-> Undef]
\* A removal that removes nothing.
Without_keepsAll(fn, k) == fn
Without(fn, k) == [x \in DOMAIN fn \ {k} |-> fn[x]]
With(fn, k, x) == (k :> x) @@ fn

\* if (value): whether a value is truthy
Truthy(x) == IsRef(x) \/ (x.t = "Number" /\ x.v # 0) \/ (x.t = "Boolean" /\ x.v = 1) \/ x.t = "String"

\* One statement that writes to the database: it throws, or the table and
\* the counter row become db and counter.
DbRun(s, db, counter) ==
  IF s.failIn = 1 THEN Throw([s EXCEPT !.failIn = 0], "DatabaseError")
  ELSE Ok([s EXCEPT !.db = db, !.counter = counter,
                    !.failIn = IF s.failIn > 1 THEN s.failIn - 1 ELSE 0], Undef)

\* What a caller may pass as a key besides a string of Keys: null,
\* undefined and the number 7, under names that no string key has.
NullKey == "null:"
UndefinedKey == "undefined:"
NumberKey == "number:7"
BadKeys == {NullKey, UndefinedKey, NumberKey}
\* A number whose string form is the key "a" (as 5 is to '5').
NumberA == "number:a"
\* key.constructor.name of a key that is not nil
KeyConstructorName(key) == IF key \in {NumberKey, NumberA} THEN "Number" ELSE "String"
\* key.toString() of a key that is not nil
toString(key) ==
  CASE key = NumberA -> "a"
    [] key = NumberKey -> "7"
    [] OTHER -> key

_readyCheck(s) ==
  IF s.isDestroyed THEN Throw(s, "DestroyedError") ELSE Ok(s, Undef)

\* { ...data, [name]: x } on trees: the own enumerable properties of data,
\* an array's elements under their indices, and the property name.
SpreadWith(tr, name, x) ==
  [t |-> "Object", v |-> 0, e |-> <<>>,
   f |-> (name :> Leaf(x)) @@ tr.f
         @@ [n \in {SpreadIndex[i] : i \in DOMAIN tr.e} |-> tr.e[IndexOfName(n)]]]
\* A serializer that leaves the value as it is, whatever the hooks.
serializer_unhooked(s, tr, key) == tr
\* this.serializer(value, key) on the tree of the value: (data) => data,
\* or the hook (data, key) => ({ ...data, p: 3 }).
serializer(s, tr, key) == IF s.hooks THEN SpreadWith(tr, "p", Num(3)) ELSE tr
\* A deserializer that leaves the value as it is, whatever the hooks.
deserializer_unhooked(s, tr, key) == tr
\* this.deserializer(value, key): (data) => data, or the hook
\* (data, key) => ({ ...data, p: 1 }).
deserializer(s, tr, key) == IF s.hooks THEN SpreadWith(tr, "p", Num(1)) ELSE tr

_parseData(s, data, key) == Build(s.heap, deserializer(s, eval(data), key))

_clone_none(h, x) == [h |-> h, v |-> x]
_clone_shallow(h, x) == clone(h, x)
\* A _clone that hands back the value itself.
_clone_byReference(s, x) == [h |-> s.heap, v |-> x]
\* [h, v]: the clone of x according to the clone level.
_clone(s, x) ==
  CASE s.cloneLevel = "none" -> _clone_none(s.heap, x)
    [] s.cloneLevel = "shallow" -> _clone_shallow(s.heap, x)
    [] OTHER -> cloneDeep(s.heap, x)

_internalSet(s, key, value, updateCache) ==
  LET w == IF s.persistent
           THEN DbRun(s, With(s.db, key, serialize(serializer(s, View(s.heap, value), key))),
                      s.counter)
           ELSE Ok(s, Undef)
  IN Then(w, LAMBDA r :
       Ok(IF updateCache THEN [r.s EXCEPT !.cache = With(r.s.cache, key, value)] ELSE r.s, This))

\* fetch(key), a single key
fetch(s, key) ==
  Then(_readyCheck(s), LAMBDA r :
    IF ~s.persistent \/ key \notin DOMAIN s.db THEN Ok(s, Null)
    ELSE LET b1 == _parseData(s, s.db[key], key)
             b2 == _parseData([s EXCEPT !.heap = b1.h], s.db[key], key)
         IN Ok([s EXCEPT !.heap = b2.h, !.cache = With(s.cache, key, b1.v)], b2.v))

\* A _fetchCheck that never fetches.
_fetchCheck_never(s, key) == Ok(s, Undef)
_fetchCheck(s, key) ==
  LET k == toString(key)
  IN IF k \in DOMAIN s.cache THEN Ok(s, Undef)
     ELSE IF ~s.persistent \/ ~s.autoFetch THEN Ok(s, Undef)
     ELSE fetch(s, k)

\* has(key), no path
hasKey(s, key) ==
  Then(_readyCheck(s), LAMBDA r0 :
  Then(_fetchCheck(s, key), LAMBDA r1 :
    Ok(r1.s, Bool(toString(key) \in DOMAIN r1.s.cache))))

\* get(key) up to the read of the entry: [s, ret]: ret is the entry itself.
getEntry(s, key) ==
  LET k == toString(key)
  IN Then(_readyCheck(s), LAMBDA r0 :
     Then(_fetchCheck(s, key), LAMBDA r1 :
     Then(IF Truthy(r1.s.default) /\ k \notin DOMAIN r1.s.cache
          THEN _internalSet(r1.s, k, r1.s.default, TRUE)
          ELSE r1, LAMBDA r2 :
       Ok(r2.s, IF k \in DOMAIN r2.s.cache THEN r2.s.cache[k] ELSE Undef))))

\* A get(key) that returns a clone of the default whatever the entry is.
getValue_ofDefault(s, key) ==
  Then(getEntry(s, key), LAMBDA r :
    LET c == _clone(r.s, r.s.default)
    IN Ok([r.s EXCEPT !.heap = c.h], c.v))
\* get(key), no path: the clone of the entry
getValue(s, key) ==
  Then(getEntry(s, key), LAMBDA r :
    LET c == _clone(r.s, r.ret)
    IN Ok([r.s EXCEPT !.heap = c.h], c.v))

\* A _check that reports a value of the wrong type as a missing path.
checkKey_typeAsPath(s, key, types) ==
  Then(hasKey(s, key), LAMBDA r0 :
    IF r0.ret = Bool(FALSE) THEN Throw(r0.s, "PathError")
    ELSE Then(getValue(r0.s, key), LAMBDA r1 :
           IF ConstructorName(r1.s.heap, r1.ret) \notin types
           THEN Throw(r1.s, "PathError") ELSE Ok(r1.s, Undef)))
\* _check(key, types), no path
checkKey(s, key, types) ==
  Then(hasKey(s, key), LAMBDA r0 :
    IF r0.ret = Bool(FALSE) THEN Throw(r0.s, "PathError")
    ELSE Then(getValue(r0.s, key), LAMBDA r1 :
           IF ConstructorName(r1.s.heap, r1.ret) \notin types
           THEN Throw(r1.s, "KeyTypeError") ELSE Ok(r1.s, Undef)))

_check(s, key, types, path) ==
  IF path = NoPath THEN checkKey(s, key, types)
  ELSE Then(hasKey(s, key), LAMBDA r0 :
         IF r0.ret = Bool(FALSE) THEN Throw(r0.s, "PathError")
         ELSE Then(checkKey(r0.s, key, {"Object"}), LAMBDA r1 :
              Then(getValue(r1.s, key), LAMBDA r2 :
                LET x == _get(r2.s.heap, r2.ret, path)
                IN IF isNil(x) THEN Throw(r2.s, "PathError")
                   ELSE IF ConstructorName(r2.s.heap, x) \notin types
                   THEN Throw(r2.s, "KeyTypeError")
                   ELSE Ok(r2.s, Undef))))

get(s, key, path) ==
  IF path = NoPath THEN getValue(s, key)
  ELSE Then(getEntry(s, key), LAMBDA r :
       Then(checkKey(r.s, key, {"Object", "Array"}), LAMBDA r1 :
         Ok(r1.s, _get(r1.s.heap, r.ret, path))))

has(s, key, path) ==
  IF path = NoPath THEN hasKey(s, key)
  ELSE Then(hasKey(s, key), LAMBDA r0 :
       Then(checkKey(r0.s, key, {"Object"}), LAMBDA r1 :
       Then(getValue(r1.s, key), LAMBDA r2 :
         Ok(r2.s, Bool(_has(r2.s.heap, r2.ret, path))))))

\* What the change callback is given, and what the store holds at that moment.
Call(s, key, oldValue, newValue) ==
  [key |-> key, oldValue |-> View(s.heap, oldValue), newValue |-> View(s.heap, newValue),
   entry |-> IF key \in DOMAIN s.cache THEN View(s.heap, s.cache[key]) ELSE Absent,
   row |-> IF key \in DOMAIN s.db THEN s.db[key] ELSE Absent]

callChangedCB(s, key, oldValue, newValue) ==
  IF s.changedCB THEN [s EXCEPT !.calls = Append(s.calls, Call(s, key, oldValue, newValue))]
  ELSE s

\* A key check that lets every key pass.
isStringKey_always(key) == TRUE
\* !(isNil(key) || key.constructor.name !== 'String')
isStringKey(key) ==
  ~(key \in {NullKey, UndefinedKey} \/ KeyConstructorName(key) # "String")

set(s, key, value, path) ==
  IF ~isStringKey(key) THEN Throw(s, "KeyTypeError") ELSE
  Then(getValue(s, key), LAMBDA r :
    LET had == key \in DOMAIN r.s.cache
        old == IF had THEN _clone(r.s, r.ret) ELSE [h |-> r.s.heap, v |-> Null]
        \* if (isNil(data)) data = {}
        h1 == IF path # NoPath /\ isNil(r.ret) THEN Append(old.h, NewObject) ELSE old.h
        base == IF path # NoPath /\ isNil(r.ret) THEN Ref(Len(h1)) ELSE r.ret
        h2 == IF path # NoPath THEN _set(h1, base, path, value) ELSE h1
        data == IF path # NoPath THEN base ELSE value
        s2 == callChangedCB([r.s EXCEPT !.heap = h2], key, old.v, data)
    IN Then(_internalSet(s2, key, data, FALSE), LAMBDA r3 :
         LET c == _clone(r3.s, data)
         IN Ok([r3.s EXCEPT !.heap = c.h, !.cache = With(r3.s.cache, key, c.v)], This)))

(***************************************************************************)
(* lodash merge(object, source): source is the caller's literal, a tree.   *)
(* The object is changed in place; an undefined in the source never        *)
(* replaces an existing property.                                          *)
(***************************************************************************)
IndexSeq == <<"0", "1", "2", "3">>
Items(tr) ==
  LET names == NamesOf(tr.f)
  IN [i \in 1..Len(names) |-> [seg |-> names[i], tr |-> tr.f[names[i]]]]
     \o [i \in DOMAIN tr.e |-> [seg |-> IndexSeq[i], tr |-> tr.e[i]]]

RECURSIVE MergeList(_, _, _)
MergeList(h, a, items) ==
  IF items = <<>> THEN h
  ELSE LET seg == Head(items).seg
           tr == Head(items).tr
           cur == Prop(h, Ref(a), seg)
           reuse == isObject(cur) /\ (tr.t = "Object" \/ h[cur.v].kind = "Array")
           h1 == IF reuse THEN h
                 ELSE Assign(Append(h, IF tr.t = "Array" THEN NewArray ELSE NewObject),
                             a, seg, Ref(Len(h) + 1))
           tgt == IF reuse THEN cur.v ELSE Len(h) + 1
           h2 == IF IsLeaf(tr)
                 THEN IF tr.t = "undefined" /\ HasProp(h, Ref(a), seg) THEN h
                      ELSE Assign(h, a, seg, [t |-> tr.t, v |-> tr.v])
                 ELSE MergeList(h1, tgt, Items(tr))
       IN MergeList(h2, a, Tail(items))

RECURSIVE AssignList(_, _, _)
AssignList(h, a, items) ==
  IF items = <<>> THEN h
  ELSE LET b == Build(h, Head(items).tr)
       IN AssignList(Assign(b.h, a, Head(items).seg, b.v), a, Tail(items))
\* A merge that assigns the source's own properties: Object.assign
merge_assign(h, obj, src) ==
  IF ~isObject(obj) \/ IsLeaf(src) THEN h ELSE AssignList(h, obj.v, Items(src))
merge(h, obj, src) ==
  IF ~isObject(obj) \/ IsLeaf(src) THEN h ELSE MergeList(h, obj.v, Items(src))

\* update(key, valueOrFunction).  arg.fn: a function was given, and it
\* returns a new value arg.tr; else arg.tr is the object to merge.
update(s, key, arg) ==
  Then(_readyCheck(s), LAMBDA r0 :
  Then(checkKey(s, key, {"Object"}), LAMBDA r1 :
  Then(_fetchCheck(r1.s, key), LAMBDA r2 :
  Then(getValue(r2.s, key), LAMBDA r3 :
    LET b == IF arg.fn THEN Build(r3.s.heap, arg.tr)
             ELSE [h |-> merge(r3.s.heap, r3.ret, arg.tr), v |-> r3.ret]
    IN Then(_internalSet([r3.s EXCEPT !.heap = b.h], key, b.v, TRUE), LAMBDA r4 :
         Ok(r4.s, b.v))))))

\* array.indexOf(x) > -1
Includes(h, arr, x) == \E i \in DOMAIN h[arr.v].e : h[arr.v].e[i] = x
\* array.push(x), in place
PushTo(h, arr, x) == [h EXCEPT ![arr.v].e = Append(h[arr.v].e, x)]

push(s, key, val, path, allowDupes) ==
  Then(getValue(s, key), LAMBDA r :
  Then(_check(r.s, key, {"Array"}, path), LAMBDA r1 :
    LET data == r.ret
        target == IF path # NoPath THEN _get(r1.s.heap, data, path) ELSE data
    IN IF ~allowDupes /\ Includes(r1.s.heap, target, val) THEN Ok(r1.s, This)
       ELSE LET h1 == PushTo(r1.s.heap, target, val)
                h2 == IF path # NoPath THEN _set(h1, data, path, target) ELSE h1
            IN _internalSet([r1.s EXCEPT !.heap = h2], key, data, TRUE)))

MathOps == {"add", "addition", "+", "sub", "subtract", "-",
            "mult", "multiply", "*", "mod", "modulo", "%"}

\* A _mathop that adds whatever the operation is.
_mathop_addsOnly(base, op, opand) ==
  IF isNil(base) \/ isNil(opand) THEN [ret |-> Undef, err |-> "TypeError"]
  ELSE [err |-> "", ret |-> Num(base.v + opand.v)]
\* [ret, err]
_mathop(base, op, opand) ==
  IF isNil(base) \/ isNil(opand) THEN [ret |-> Undef, err |-> "TypeError"]
  ELSE [err |-> "",
        ret |-> CASE op \in {"add", "addition", "+"} -> Num(base.v + opand.v)
                  [] op \in {"sub", "subtract", "-"} -> Num(base.v - opand.v)
                  [] op \in {"mult", "multiply", "*"} -> Num(base.v * opand.v)
                  [] op \in {"mod", "modulo", "%"} -> Num(base.v % opand.v)
                  [] OTHER -> Undef]

math(s, key, operation, operand, path) ==
  Then(_check(s, key, {"Number"}, path), LAMBDA r0 :
  Then(get(r0.s, key, path), LAMBDA r1 :
    LET m == _mathop(r1.ret, operation, operand)
    IN IF m.err # "" THEN Throw(r1.s, m.err)
       ELSE set(r1.s, key, m.ret, path)))

\* inc (by = 1) and dec (by = -1)
incdec(s, key, path, by) ==
  Then(_check(s, key, {"Number"}, path), LAMBDA r0 :
  Then(getValue(r0.s, key), LAMBDA r1 :
    IF path = NoPath THEN _internalSet(r1.s, key, Num(r1.ret.v + by), TRUE)
    ELSE LET propValue == _get(r1.s.heap, r1.ret, path)
             h1 == _set(r1.s.heap, r1.ret, path, Num(propValue.v + by))
         IN _internalSet([r1.s EXCEPT !.heap = h1], key, r1.ret, TRUE)))

\* An inc that adds 2.
inc_byTwo(s, key, path) == incdec(s, key, path, 2)
inc(s, key, path) == incdec(s, key, path, 1)
dec(s, key, path) == incdec(s, key, path, -1)

\* A delete that notifies the change callback on a persistent store as well.
delete_notifiesAlways(s, key, path) ==
  Then(_readyCheck(s), LAMBDA r0 :
  Then(_fetchCheck(s, key), LAMBDA r1 :
  Then(getValue(r1.s, key), LAMBDA old :
    IF path # NoPath
    THEN Then(getValue(old.s, key), LAMBDA r2 : Throw(r2.s, "ReferenceError"))
    ELSE LET k == toString(key)
             s1 == [old.s EXCEPT !.cache = Without(old.s.cache, k)]
         IN Then(IF s1.persistent THEN DbRun(s1, Without(s1.db, k), s1.counter)
                 ELSE Ok(s1, Undef), LAMBDA r3 :
              Ok(callChangedCB(r3.s, k, old.ret, Null), This)))))
\* delete(key, path).  With a path the call reaches isArray(propValue), a
\* name the module neither imports nor defines.
delete(s, key, path) ==
  Then(_readyCheck(s), LAMBDA r0 :
  Then(_fetchCheck(s, key), LAMBDA r1 :
  Then(getValue(r1.s, key), LAMBDA old :
    IF path # NoPath
    THEN Then(getValue(old.s, key), LAMBDA r2 : Throw(r2.s, "ReferenceError"))
    ELSE LET k == toString(key)
             s1 == [old.s EXCEPT !.cache = Without(old.s.cache, k)]
         IN IF s1.persistent
            THEN Then(DbRun(s1, Without(s1.db, k), s1.counter), LAMBDA r3 : Ok(r3.s, This))
            ELSE Ok(callChangedCB(s1, k, old.ret, Null), This))))

\* A deleteAll that empties the cache and leaves the rows.
deleteAll_cacheOnly(s) ==
  Then(_readyCheck(s), LAMBDA r0 : Ok([s EXCEPT !.cache = NoEntries], Undef))
deleteAll(s) ==
  Then(_readyCheck(s), LAMBDA r0 :
  Then(IF s.persistent THEN DbRun(s, NoRows, s.counter) ELSE Ok(s, Undef), LAMBDA r1 :
    Ok([r1.s EXCEPT !.cache = NoEntries], Undef)))

clear(s) == deleteAll(s)

\* destroy().  Without a database this.db?.transaction(...) is undefined,
\* and calling it throws after isDestroyed is set.
destroy(s) ==
  Then(deleteAll(s), LAMBDA r0 :
    LET s1 == [r0.s EXCEPT !.isDestroyed = TRUE]
    IN IF ~s1.persistent THEN Throw(s1, "TypeError")
       ELSE Then(DbRun(s1, NoRows, Absent), LAMBDA r1 : Ok(r1.s, Undef)))

\* An evict that deletes the row as well.
evict_withRow(s, key) ==
  Ok([s EXCEPT !.cache = Without(s.cache, key), !.db = Without(s.db, key)], This)
\* evict(key), a single key: super.delete(key) with the key as it was given
evict(s, key) == Ok([s EXCEPT !.cache = Without(s.cache, key)], This)
\* evict(keys), an array of keys
RECURSIVE evictKeys(_, _)
evictKeys(s, keys) ==
  IF keys = <<>> THEN Ok(s, This)
  ELSE evictKeys(evict(s, Head(keys)).s, Tail(keys))

\* The counter row of this store: Absent, or the value of its lastnum
\* column.  The statement's result, a row object or undefined, is added to 1.
autonum(s) ==
  IF ~s.persistent THEN Ok(s, StrNaN)
  ELSE LET lastNum == IF s.counter = Absent THEN StrNaN ELSE StrObjectObject1
           \* sqlite stores NaN as NULL
           stored == IF s.counter = Absent THEN Leaf(Null) ELSE Leaf(lastNum)
       IN Then(DbRun(s, s.db, stored), LAMBDA r : Ok(r.s, lastNum))

\* A predicate a caller passes to remove: (value) => value >= n
AtLeast(n) == [t |-> "Function", v |-> n]
\* isFunction(val) ? val : (value) => val === value
Criteria(val, x) == IF val.t = "Function" THEN x.t = "Number" /\ x.v >= val.v ELSE x = val
\* A findIndex that gives the last element that matches.
FindIndex_last(h, arr, val) ==
  LET e == h[arr.v].e
      hit == {i \in DOMAIN e : Criteria(val, e[i])}
  IN IF hit = {} THEN -1 ELSE (CHOOSE i \in hit : \A j \in hit : i >= j) - 1
\* data.findIndex(criteria)
FindIndex(h, arr, val) ==
  LET e == h[arr.v].e
      hit == {i \in DOMAIN e : Criteria(val, e[i])}
  IN IF hit = {} THEN -1 ELSE (CHOOSE i \in hit : \A j \in hit : i <= j) - 1

remove(s, key, val, path) ==
  Then(_readyCheck(s), LAMBDA r0 :
  Then(_fetchCheck(s, key), LAMBDA r1 :
  Then(checkKey(r1.s, key, {"Array", "Object"}), LAMBDA r2 :
  Then(get(r2.s, key, path), LAMBDA r3 :
    IF ~isArray(r3.s.heap, r3.ret) THEN Throw(r3.s, "TypeError")
    ELSE LET index == FindIndex(r3.s.heap, r3.ret, val)
             h1 == IF index > -1 THEN Splice(r3.s.heap, r3.ret.v, index) ELSE r3.s.heap
         IN set([r3.s EXCEPT !.heap = h1], key, r3.ret, path)))))

RECURSIVE LoadRows(_, _)
\* for (const row of rows) super.set(row.key, this._parseData(row.value, row.key))
LoadRows(s, keys) ==
  IF keys = <<>> THEN s
  ELSE LET k == Head(keys)
           b == _parseData(s, s.db[k], k)
       IN LoadRows(IF k \in DOMAIN s.db
                   THEN [s EXCEPT !.heap = b.h, !.cache = With(s.cache, k, b.v)]
                   ELSE s, Tail(keys))

fetchEverything(s) ==
  Then(_readyCheck(s), LAMBDA r0 :
    IF ~s.persistent THEN Ok(s, This) ELSE Ok(LoadRows(s, KeySeq), This))

\* The keys part of the text export() returns: key -> text of the value.
ExportText(s) == [k \in DOMAIN s.cache |-> serialize(View(s.heap, s.cache[k]))]

\* An export that skips fetchEverything.
export_cachedOnly(s) == Then(_readyCheck(s), LAMBDA r0 : Ok(s, Undef))
export(s) ==
  Then(_readyCheck(s), LAMBDA r0 :
  Then(IF s.persistent THEN fetchEverything(s) ELSE Ok(s, This), LAMBDA r1 :
    Ok(r1.s, Undef)))

RECURSIVE ImportEntries(_, _, _, _)
\* The loop of import(): a result; the first error ends it.
ImportEntries(s, parsed, keys, overwrite) ==
  IF keys = <<>> THEN Ok(s, This)
  ELSE LET k == Head(keys)
       IN IF k \notin DOMAIN parsed THEN ImportEntries(s, parsed, Tail(keys), overwrite)
          ELSE Then(IF overwrite THEN Ok(s, Bool(FALSE)) ELSE hasKey(s, k), LAMBDA r0 :
                 IF r0.ret = Bool(TRUE) THEN ImportEntries(r0.s, parsed, Tail(keys), overwrite)
                 ELSE LET b == Build(r0.s.heap, eval(parsed[k]))
                      IN Then(_internalSet([r0.s EXCEPT !.heap = b.h], k, b.v, TRUE), LAMBDA r1 :
                           ImportEntries(r1.s, parsed, Tail(keys), overwrite)))

\* import(data, overwrite, clear).  data.kind: "nil" (null or undefined),
\* "invalid" (text that is no export) or "text" (data.keys: an export).
import(s, data, overwrite, clr) ==
  Then(_readyCheck(s), LAMBDA r0 :
  Then(IF clr THEN deleteAll(s) ELSE Ok(s, Undef), LAMBDA r1 :
    IF data.kind = "nil" THEN Throw(r1.s, "ImportError")
    ELSE IF data.kind = "invalid" THEN Throw(r1.s, "ImportError")
    ELSE LET r2 == ImportEntries(r1.s, data.keys, KeySeq, overwrite)
         IN IF r2.err # "" THEN Throw(r2.s, "ImportError") ELSE Ok(r2.s, This)))

\* changed(cb)
changed(s) == Ok([s EXCEPT !.changedCB = TRUE], Undef)

(***************************************************************************)
(* The state: one store and its caller.                                    *)
(***************************************************************************)
VARIABLES
  heap,          \* the objects and arrays that exist
  cache,         \* the Map's entries: key -> value
  db,            \* the rows of the store's table: key -> text
  counter,       \* the store's row of the autonum table, or Absent
  isDestroyed,
  changedCB,     \* whether a change callback is registered
  persistent, autoFetch, default, cloneLevel,
  options,       \* the options the constructor was given
  hooks,         \* whether serializer and deserializer are the caller's hooks
  held,          \* an object the caller holds a reference to (or undefined)
  heldOrigin,    \* how the caller got it
  heldKey,       \* the key it was passed to or read from
  snap,          \* the export the caller keeps
  failed,        \* whether a call has thrown so far
  steps          \* calls made so far

config == <<persistent, autoFetch, cloneLevel, options, hooks>>
vars == <<heap, cache, db, counter, isDestroyed, changedCB, config, default,
          held, heldOrigin, heldKey, snap, failed, steps>>

Arr1 == [t |-> "Array", v |-> 0, f |-> NoFields, e |-> <<Leaf(Num(1))>>]
\* { p: 1, q: [1] }
BaseObj ==
  [t |-> "Object", v |-> 0,
   f |-> [n \in {"p", "q"} |-> IF n = "p" THEN Leaf(Num(1)) ELSE Arr1], e |-> <<>>]
EmptyObj == [t |-> "Object", v |-> 0, f |-> NoFields, e |-> <<>>]

\* The options a store is constructed with.  name: a name is given (the
\* store is persistent); default: Leaf(Undef) where none is given.
\* hooks: serializer and deserializer are given.
Options(name, af, dflt, level, hk) ==
  [name |-> name, autoFetch |-> af, default |-> dflt, cloneLevel |-> level, hooks |-> hk]
OptionSets ==
  { Options(TRUE, TRUE, Leaf(Undef), "deep", FALSE),
    Options(FALSE, TRUE, Leaf(Undef), "deep", FALSE),
    Options(TRUE, TRUE, BaseObj, "deep", FALSE),
    Options(TRUE, FALSE, Leaf(Undef), "deep", FALSE),
    Options(FALSE, TRUE, Leaf(Undef), "none", FALSE),
    Options(FALSE, TRUE, Leaf(Undef), "shallow", FALSE),
    Options(TRUE, TRUE, Leaf(Undef), "deep", TRUE) }
Paths == {<<"p">>, <<"q">>}
AnyPath == Paths \cup {NoPath}
\* The values a caller writes as literals.
Literals == {Leaf(Num(1)), Arr1}
NoSnap == [kind |-> "nil", keys |-> NoRows]

\* The store as the methods see it; fail: the write of this call that throws.
Cur(fail) ==
  [heap |-> heap, cache |-> cache, db |-> db, counter |-> counter,
   isDestroyed |-> isDestroyed, changedCB |-> changedCB, persistent |-> persistent,
   autoFetch |-> autoFetch, default |-> default, cloneLevel |-> cloneLevel,
   hooks |-> hooks, calls |-> <<>>, failIn |-> fail]

\* new EnhancedMap(options)
Init ==
  /\ options \in OptionSets
  /\ LET d == Build(<<>>, IF options.default = Leaf(Undef) THEN EmptyObj ELSE options.default)
     IN heap = d.h /\ default = d.v
  /\ cloneLevel = "deep"
  /\ persistent = options.name
  /\ hooks = options.hooks
  /\ autoFetch = (options.name /\ options.autoFetch)
  /\ cache = NoEntries
  /\ db = NoRows
  /\ counter = IF options.name THEN Leaf(Num(0)) ELSE Absent
  /\ isDestroyed = FALSE
  /\ changedCB = FALSE
  /\ held = Undef /\ heldOrigin = "none" /\ heldKey = ""
  /\ snap = NoSnap
  /\ failed = FALSE
  /\ steps = 0

\* The model's bounds on what a call may produce.
Bounded(h) ==
  \A a \in DOMAIN h :
    /\ Len(h[a].e) <= MaxLen
    /\ \A x \in {h[a].e[i] : i \in DOMAIN h[a].e} \cup {h[a].f[n] : n \in DOMAIN h[a].f} :
         x.t = "Number" => x.v \in 0..MaxNum

CachedKeys(c) ==
  LET In(k) == k \in DOMAIN c
  IN SelectSeq(KeySeq, In)

\* The state after a call with result r, the caller now holding h.
Commit(r, h, origin, hkey) ==
  LET ks == CachedKeys(r.s.cache)
      n == Normalize(r.s.heap, [i \in 1..Len(ks) |-> r.s.cache[ks[i]]] \o <<r.s.default, h>>)
  IN /\ steps < MaxCalls
     /\ r.s.failIn = 0
     /\ Bounded(n.h)
     /\ \A k \in DOMAIN r.s.cache : r.s.cache[k].t = "Number" => r.s.cache[k].v \in 0..MaxNum
     /\ steps' = steps + 1
     /\ heap' = n.h
     /\ cache' = [k \in DOMAIN r.s.cache |-> n.roots[PosIn(ks, k)]]
     /\ default' = n.roots[Len(ks) + 1]
     /\ held' = n.roots[Len(ks) + 2]
     /\ heldOrigin' = origin
     /\ heldKey' = hkey
     /\ db' = r.s.db
     /\ counter' = r.s.counter
     /\ isDestroyed' = r.s.isDestroyed
     /\ changedCB' = r.s.changedCB
     /\ failed' = (failed \/ r.err # "")
     /\ UNCHANGED config

\* The caller's object passed to set(k, obj) counts as "passed" until a call
\* other than a read or a write into a path follows.
Keeps(op, path) == op \in {"get", "has"} \/ (op \in {"set", "push"} /\ path # NoPath)
OriginAfter(op, path) ==
  IF heldOrigin = "passed" /\ ~Keeps(op, path) THEN "stale" ELSE heldOrigin

\* A call that returns nothing the caller keeps.
Plain(r, op, path) == Commit(r, held, OriginAfter(op, path), heldKey) /\ snap' = snap

\* A call whose result the caller may keep, if it holds nothing yet.
Kept(r, op, key, path, keep, origin) ==
  IF keep /\ heldOrigin = "none" /\ r.err = "" /\ IsRef(r.ret)
  THEN Commit(r, r.ret, origin, key) /\ snap' = snap
  ELSE Plain(r, op, path)

(***************************************************************************)
(* The caller's steps.                                                     *)
(***************************************************************************)
\* const obj = { p: 1, q: [1] }
CallerNew ==
  LET b == Build(heap, BaseObj)
  IN /\ heldOrigin = "none"
     /\ Commit(Ok([Cur(0) EXCEPT !.heap = b.h], Undef), b.v, "new", "")
     /\ snap' = snap

\* The caller changes the object x: x.p = 0 (x.push(0) for an array) at the
\* top, x.q.push(0) inside.  The heap after the change.
CallerWrite(h, x, deep) ==
  LET tgt == IF deep THEN Prop(h, x, "q") ELSE x
  IN IF ~IsRef(tgt) \/ (deep /\ ~isArray(h, tgt)) THEN h
     ELSE IF isArray(h, tgt) THEN PushTo(h, tgt, Num(0))
     ELSE Assign(h, tgt.v, "p", Num(0))

CallerMutate(deep) ==
  /\ IsRef(held)
  /\ CallerWrite(heap, held, deep) # heap
  /\ Commit(Ok([Cur(0) EXCEPT !.heap = CallerWrite(heap, held, deep)], Undef),
            held, heldOrigin, heldKey)
  /\ snap' = snap

(***************************************************************************)
(* The calls of the store's methods on the current state, with the         *)
(* arguments the caller uses.                                              *)
(***************************************************************************)
\* set(key, literal) and set(key, literal, path)
setLiteral(key, lit, path, fail) ==
  LET b == Build(heap, lit)
  IN set([Cur(fail) EXCEPT !.heap = b.h], key, b.v, path)
\* set(key, obj) with the object the caller holds
setHeld(key, fail) == set(Cur(fail), key, held, NoPath)
\* push(key, 2, path, allowDupes)
pushTwo(key, path, allowDupes, fail) == push(Cur(fail), key, Num(2), path, allowDupes)
\* math(key, op, 2, path)
mathTwo(key, op, path, fail) == math(Cur(fail), key, op, Num(2), path)
\* remove(key, 1, path)
removeOne(key, path, fail) == remove(Cur(fail), key, Num(1), path)
\* update(key, { p: 2 }) and update(key, () => ({ p: 2 }))
Patch == [t |-> "Object", v |-> 0, f |-> [n \in {"p"} |-> Leaf(Num(2))], e |-> <<>>]
updatePatch(key, fn, fail) == update(Cur(fail), key, [fn |-> fn, tr |-> Patch])
\* import(data, overwrite, clear): data is missing, no export, or the export kept
importData(kind, overwrite, clr, fail) ==
  import(Cur(fail), IF kind = "text" THEN snap ELSE [kind |-> kind, keys |-> NoRows],
         overwrite, clr)

Changed == ~changedCB /\ Plain(changed(Cur(0)), "changed", NoPath)
Set(key, lit, path, fail) == Plain(setLiteral(key, lit, path, fail), "set", path)
SetHeld(key, fail) ==
  /\ IsRef(held)
  /\ Commit(setHeld(key, fail), held,
            IF heldOrigin \in {"new", "passed", "stale"} THEN "passed" ELSE heldOrigin,
            IF heldOrigin \in {"new", "passed", "stale"} THEN key ELSE heldKey)
  /\ snap' = snap
Get(key, path, keep, fail) ==
  Kept(get(Cur(fail), key, path), "get", key, path, keep,
       IF path = NoPath THEN "get" ELSE "getpath")
Has(key, path) == Plain(has(Cur(0), key, path), "has", path)
Push(key, path, allowDupes, fail) == Plain(pushTwo(key, path, allowDupes, fail), "push", path)
Math(key, op, path, fail) == Plain(mathTwo(key, op, path, fail), "math", path)
Inc(key, path, fail) == Plain(inc(Cur(fail), key, path), "inc", path)
Dec(key, path, fail) == Plain(dec(Cur(fail), key, path), "dec", path)
Remove(key, path, fail) == Plain(removeOne(key, path, fail), "remove", path)
Update(key, fn, keep, fail) ==
  Kept(updatePatch(key, fn, fail), "update", key, NoPath, keep, "update")
Delete(key, path, fail) == Plain(delete(Cur(fail), key, path), "delete", path)
Evict(key) == Plain(evict(Cur(0), key), "evict", NoPath)
Fetch(key, keep) == Kept(fetch(Cur(0), key), "fetch", key, NoPath, keep, "fetch")
Clear(fail) == Plain(clear(Cur(fail)), "clear", NoPath)
Destroy(fail) == Plain(destroy(Cur(fail)), "destroy", NoPath)
Autonum(fail) == Plain(autonum(Cur(fail)), "autonum", NoPath)
Export ==
  LET r == export(Cur(0))
  IN /\ Commit(r, held, OriginAfter("export", NoPath), heldKey)
     /\ snap' = IF r.err = "" THEN [kind |-> "text", keys |-> ExportText(r.s)] ELSE snap
Import(kind, overwrite, clr, fail) ==
  /\ kind = "text" => snap.kind = "text"
  /\ Plain(importData(kind, overwrite, clr, fail), "import", NoPath)

\* Only a persistent store writes to a database.
Fails == IF persistent THEN 0..MaxFail ELSE {0}
MathNames == {"add", "sub"}
ImportKinds == {"nil", "invalid", "text"}

Next ==
  \/ CallerNew
  \/ \E deep \in BOOLEAN : CallerMutate(deep)
  \/ Changed
  \/ \E key \in Keys \cup BadKeys, lit \in Literals, fail \in Fails :
       Set(key, lit, NoPath, fail)
  \/ \E key \in Keys, path \in Paths, fail \in Fails : Set(key, Leaf(Num(2)), path, fail)
  \/ \E key \in Keys, fail \in Fails : SetHeld(key, fail)
  \/ \E key \in Keys, path \in AnyPath, keep \in BOOLEAN, fail \in Fails :
       Get(key, path, keep, fail)
  \/ \E key \in Keys, path \in AnyPath : Has(key, path)
  \/ \E key \in Keys, path \in AnyPath, allowDupes \in BOOLEAN, fail \in Fails :
       Push(key, path, allowDupes, fail)
  \/ \E key \in Keys, op \in MathNames, path \in AnyPath, fail \in Fails :
       Math(key, op, path, fail)
  \/ \E key \in Keys, path \in AnyPath, fail \in Fails : Inc(key, path, fail)
  \/ \E key \in Keys, path \in AnyPath, fail \in Fails : Dec(key, path, fail)
  \/ \E key \in Keys, path \in AnyPath, fail \in Fails : Remove(key, path, fail)
  \/ \E key \in Keys, fn \in BOOLEAN, keep \in BOOLEAN, fail \in Fails :
       Update(key, fn, keep, fail)
  \/ \E key \in Keys, path \in AnyPath, fail \in Fails : Delete(key, path, fail)
  \/ \E key \in Keys : Evict(key)
  \/ \E key \in Keys, keep \in BOOLEAN : Fetch(key, keep)
  \/ \E fail \in Fails : Clear(fail)
  \/ \E fail \in Fails : Destroy(fail)
  \/ \E fail \in Fails : Autonum(fail)
  \/ Export
  \/ \E kind \in ImportKinds, overwrite \in BOOLEAN, clr \in BOOLEAN, fail \in Fails :
       Import(kind, overwrite, clr, fail)

Spec == Init /\ [][Next]_vars

(***************************************************************************)
(* What a caller can observe, and the calls it can make from a state.      *)
(***************************************************************************)
\* The entry and the row of a key in a store, Absent where there is none.
Entry(s, key) == IF key \in DOMAIN s.cache THEN View(s.heap, s.cache[key]) ELSE Absent
Row(s, key) == IF key \in DOMAIN s.db THEN s.db[key] ELSE Absent
\* The store a caller can tell apart from another: entries, rows, flags.
Observable(s) ==
  [cache |-> [k \in DOMAIN s.cache |-> View(s.heap, s.cache[k])], db |-> s.db,
   counter |-> s.counter, isDestroyed |-> s.isDestroyed, default |-> View(s.heap, s.default)]

\* The results of the single-key writes on key whose write number fail throws.
WritesOn(key, fail) ==
  {setLiteral(key, lit, NoPath, fail) : lit \in Literals}
    \cup {setLiteral(key, Leaf(Num(2)), path, fail) : path \in Paths}
    \cup {pushTwo(key, path, d, fail) : path \in AnyPath, d \in BOOLEAN}
    \cup {inc(Cur(fail), key, path) : path \in AnyPath}
    \cup {dec(Cur(fail), key, path) : path \in AnyPath}
    \cup {updatePatch(key, fn, fail) : fn \in BOOLEAN}
    \cup {delete(Cur(fail), key, NoPath)}
\* The results of every call the caller can make.
CallsOn(key) ==
  WritesOn(key, 0)
    \cup {get(Cur(0), key, path) : path \in AnyPath}
    \cup {has(Cur(0), key, path) : path \in AnyPath}
    \cup {mathTwo(key, op, path, 0) : op \in MathNames, path \in AnyPath}
    \cup {removeOne(key, path, 0) : path \in AnyPath}
    \cup {delete(Cur(0), key, path) : path \in Paths}
    \cup {evict(Cur(0), key), fetch(Cur(0), key)}
    \cup (IF IsRef(held) THEN {setHeld(key, 0)} ELSE {})
CallsAll ==
  UNION {CallsOn(key) : key \in Keys}
    \cup {clear(Cur(0)), destroy(Cur(0)), autonum(Cur(0)), export(Cur(0))}
    \cup {importData(kind, o, c, 0) : kind \in {"nil", "invalid"}, o \in BOOLEAN, c \in BOOLEAN}

(***************************************************************************)
(* Round trip, consistency of cache and rows, the change callback,         *)
(* failed writes, the destroyed store.                                     *)
(***************************************************************************)
ValuesC1 == Literals \cup {BaseObj, EmptyObj, Leaf(Null), Leaf(Undef), Leaf(Num(0))}
\* get(key) after set(key, value), value given as a tree
GetAfterSet(key, tr) ==
  LET b == Build(heap, tr)
  IN Then(set([Cur(0) EXCEPT !.heap = b.h], key, b.v, NoPath),
          LAMBDA r : get(r.s, key, NoPath))

\* C1: in every state of a live store, for every key and every value v,
\* when set(key, v) returns, get(key) returns a value structurally equal
\* to v: whether or not the key had an entry, with or without a default.
ThmC1 ==
  ~isDestroyed =>
    \A key \in Keys, tr \in ValuesC1 :
      LET g == GetAfterSet(key, tr)
      IN g.err = "" /\ View(g.s.heap, g.ret) = tr
\* A store with a configured default whose key a holds something else than
\* the array [1]: set(a, [1]) then get(a) gives [1].
WitC1 ==
  /\ ~isDestroyed /\ options.default # Leaf(Undef)
  /\ "a" \in DOMAIN cache /\ View(heap, cache["a"]) # Arr1
  /\ LET g == GetAfterSet("a", Arr1) IN g.err = "" /\ View(g.s.heap, g.ret) = Arr1

\* C2: on a persistent store, after calls of the store's methods that all
\* returned (and no change made by the caller to an object it holds), every
\* key of the cache has a row and the row decodes to the cached value.
CexC2 ==
  (persistent /\ ~isDestroyed /\ ~failed /\ heldOrigin = "none") =>
    \A key \in DOMAIN cache :
      key \in DOMAIN db /\ eval(db[key]) = View(heap, cache[key])

\* C3: when the change callback runs for set(key, v), the entry of key (and
\* the row of key, for a persistent store) already holds the new value.
CexC3 ==
  changedCB =>
    \A key \in Keys, lit \in Literals :
      LET r == setLiteral(key, lit, NoPath, 0)
      IN \A i \in DOMAIN r.s.calls :
           /\ r.s.calls[i].entry = r.s.calls[i].newValue
           /\ persistent => r.s.calls[i].row = serialize(r.s.calls[i].newValue)

\* C4: when the backing-store write of set, push, inc, dec, update or
\* delete (no path) on a key throws, the entry of the key is what it was
\* before the call.
CexC4 ==
  persistent =>
    \A key \in Keys, fail \in 1..MaxFail :
      \A r \in WritesOn(key, fail) :
        r.err = "DatabaseError" => Entry(r.s, key) = Entry(Cur(0), key)

\* C5: once destroy() has returned, every call throws a DestroyedError and
\* changes nothing, isDestroyed included.
CexC5 ==
  (isDestroyed /\ ~failed) =>
    \A r \in CallsAll :
      r.err = "DestroyedError" /\ Observable(r.s) = Observable(Cur(0))

(***************************************************************************)
(* The clone policy.                                                       *)
(***************************************************************************)
\* The objects the store retains: those reachable from its entries.
Retained(s) ==
  LET ks == CachedKeys(s.cache)
  IN Reachable(s.heap, [i \in 1..Len(ks) |-> s.cache[ks[i]]])
\* The calls that hand a stored value, or a part of it, to the caller.
ReadsOn(key) ==
  {get(Cur(0), key, path) : path \in AnyPath}
    \cup {updatePatch(key, fn, 0) : fn \in BOOLEAN}
    \cup {fetch(Cur(0), key)}
\* get(key) after the caller changed, at the top or inside, the object x
\* that the call with result g returned.
GetAfterWrite(g, key, deep) ==
  get([g.s EXCEPT !.heap = CallerWrite(g.s.heap, g.ret, deep)], key, NoPath)

\* C6: with clone level deep, after the caller changes the object that
\* get(key) returned, at the top or in a nested array, the next get(key)
\* still returns what the first one returned.
ThmC6 ==
  cloneLevel = "deep" =>
    \A key \in Keys, deep \in BOOLEAN :
      LET g == get(Cur(0), key, NoPath)
          g2 == GetAfterWrite(g, key, deep)
      IN (g.err = "" /\ IsRef(g.ret)) =>
           g2.err = "" /\ View(g2.s.heap, g2.ret) = View(g.s.heap, g.ret)
\* get(a) returns an object with a nested array, the caller pushes onto the
\* nested array, and the next get(a) returns the object as it was.
WitC6 ==
  /\ cloneLevel = "deep"
  /\ "a" \in DOMAIN cache
  /\ LET g == get(Cur(0), "a", NoPath)
         g2 == GetAfterWrite(g, "a", TRUE)
     IN /\ g.err = "" /\ IsRef(g.ret)
        /\ CallerWrite(g.s.heap, g.ret, TRUE) # g.s.heap
        /\ g2.err = "" /\ View(g2.s.heap, g2.ret) = View(g.s.heap, g.ret)

\* C7: with clone level shallow or deep, the object that get (with or
\* without a path), update or fetch returns is not an object the store
\* retains in its cache, nor a part of one.
CexC7 ==
  options.cloneLevel \in {"shallow", "deep"} =>
    \A key \in Keys :
      \A r \in ReadsOn(key) :
        (r.err = "" /\ IsRef(r.ret)) => r.ret.v \notin Retained(r.s)

\* C8: in a store constructed with cloneLevel 'none', after set(k, obj) a
\* later set(k, 2, path) and a later push(k, 2, 'q') show in the caller's
\* obj, and a change the caller makes to what get(k) returned shows in the
\* next get(k).
CexC8 ==
  (options.cloneLevel = "none" /\ heldOrigin = "passed") =>
    /\ \A path \in Paths :
         LET r == setLiteral(heldKey, Leaf(Num(2)), path, 0)
         IN r.err = "" => _get(r.s.heap, held, path) = Num(2)
    /\ LET r == pushTwo(heldKey, <<"q">>, TRUE, 0)
       IN r.err = "" => Includes(r.s.heap, _get(r.s.heap, held, <<"q">>), Num(2))
    /\ LET g == get(Cur(0), heldKey, NoPath)
           g2 == GetAfterWrite(g, heldKey, FALSE)
       IN (g.err = "" /\ IsRef(g.ret)) =>
            View(g2.s.heap, g2.ret) = View(g2.s.heap, g.ret)

\* C9: in a store constructed with cloneLevel 'shallow', after set(k, obj)
\* a later set(k, 2, 'p') leaves obj.p as it was, and a later
\* push(k, 2, 'q') shows in the caller's obj.q.
CexC9 ==
  (options.cloneLevel = "shallow" /\ heldOrigin = "passed") =>
    /\ LET r == setLiteral(heldKey, Leaf(Num(2)), <<"p">>, 0)
       IN r.err = "" => _get(r.s.heap, held, <<"p">>) = _get(heap, held, <<"p">>)
    /\ LET r == pushTwo(heldKey, <<"q">>, TRUE, 0)
       IN r.err = "" => Includes(r.s.heap, _get(r.s.heap, held, <<"q">>), Num(2))

\* C10: with clone level deep, no call of a store method, whether it
\* returns or throws, changes an object the caller has passed to
\* set(k, obj): neither its properties nor its nested array.
ThmC10 ==
  (cloneLevel = "deep" /\ heldOrigin \in {"passed", "stale"}) =>
    \A r \in CallsAll : View(r.s.heap, held) = View(heap, held)
\* The caller has passed obj to set(k, obj); set(k, 2, 'p') and
\* push(k, 2, 'q') then change the entry of k and leave obj as it was.
WitC10 ==
  /\ cloneLevel = "deep" /\ heldOrigin = "passed"
  /\ LET r == setLiteral(heldKey, Leaf(Num(2)), <<"p">>, 0)
     IN r.err = "" /\ Entry(r.s, heldKey) # Entry(Cur(0), heldKey)
                   /\ View(r.s.heap, held) = View(heap, held)
  /\ LET r == pushTwo(heldKey, <<"q">>, TRUE, 0)
     IN r.err = "" /\ Entry(r.s, heldKey) # Entry(Cur(0), heldKey)
                   /\ View(r.s.heap, held) = View(heap, held)

(***************************************************************************)
(* The default, delete, evict, autofetch, clear.                           *)
(***************************************************************************)
\* Neither an entry nor a row.
Missing(key) == key \notin DOMAIN cache /\ key \notin DOMAIN db
\* The tree tr with the leaf at the one-segment path replaced by the value x.
Replaced(tr, path, x) == [tr EXCEPT !.f = (path[1] :> Leaf(x)) @@ tr.f]
\* get(key) after the call with result r
ThenGet(r, key) == Then(r, LAMBDA r1 : get(r1.s, key, NoPath))

\* C11: in a store constructed with a default d, after calls that all
\* returned, get(k) on a key with neither entry nor row returns d and makes
\* has(k) true; set(k, 2, p) then get(k) returns d with p replaced by 2,
\* after that get and also on a key that was never read.
CexC11 ==
  (options.default # Leaf(Undef) /\ ~isDestroyed /\ ~failed /\ heldOrigin = "none") =>
    \A key \in Keys :
      Missing(key) =>
        LET g == get(Cur(0), key, NoPath)
        IN /\ g.err = "" /\ View(g.s.heap, g.ret) = options.default
           /\ has(g.s, key, NoPath).ret = Bool(TRUE)
           /\ \A path \in Paths :
                LET g1 == ThenGet(set(g.s, key, Num(2), path), key)
                    g2 == ThenGet(set(Cur(0), key, Num(2), path), key)
                IN /\ g1.err = "" /\ g2.err = ""
                   /\ View(g1.s.heap, g1.ret) = Replaced(options.default, path, Num(2))
                   /\ View(g2.s.heap, g2.ret) = Replaced(options.default, path, Num(2))

\* C12: when delete(key) with no path returns, has(key) is false and no row
\* of the key is left to fetch; in a store constructed with a default a
\* following get(key) stores and returns the store's default again and
\* has(key) is true again.
ThmC12 ==
  \A key \in Keys :
    LET d == delete(Cur(0), key, NoPath)
        h == has(d.s, key, NoPath)
        g == get(d.s, key, NoPath)
    IN d.err = "" =>
         /\ h.err = "" /\ h.ret = Bool(FALSE)
         /\ key \notin DOMAIN h.s.cache /\ key \notin DOMAIN h.s.db
         /\ options.default # Leaf(Undef) =>
              /\ g.err = "" /\ View(g.s.heap, g.ret) = View(d.s.heap, d.s.default)
              /\ Entry(g.s, key) = View(d.s.heap, d.s.default)
              /\ has(g.s, key, NoPath).ret = Bool(TRUE)
\* A persistent store with a default in which key a has an entry and a row
\* that differ from the default: delete(a) returns, has(a) is false, and
\* get(a) brings the default back.
WitC12 ==
  /\ persistent /\ autoFetch /\ options.default # Leaf(Undef)
  /\ "a" \in DOMAIN cache /\ "a" \in DOMAIN db
  /\ View(heap, cache["a"]) # View(heap, default)
  /\ LET d == delete(Cur(0), "a", NoPath)
         g == get(d.s, "a", NoPath)
     IN /\ d.err = "" /\ has(d.s, "a", NoPath).ret = Bool(FALSE)
        /\ g.err = "" /\ View(g.s.heap, g.ret) = View(heap, default)
        /\ has(g.s, "a", NoPath).ret = Bool(TRUE)

\* The lists of keys a caller passes to evict.
KeyLists == {<<>>, <<"a">>, <<"b">>, <<"a", "b">>, <<"b", "b">>}
Elems(seq) == {seq[i] : i \in DOMAIN seq}

\* C13: evict(key) and evict(keys) return, remove exactly the named keys
\* from the cache, and leave every other entry, every row, the counter row
\* and the rest of the store as they were.
ThmC13 ==
  LET OnlyEvicted(r, named) ==
        /\ r.err = ""
        /\ DOMAIN r.s.cache = DOMAIN cache \ named
        /\ \A k \in DOMAIN r.s.cache : Entry(r.s, k) = Entry(Cur(0), k)
        /\ r.s.db = db /\ r.s.counter = counter
        /\ View(r.s.heap, r.s.default) = View(heap, default)
  IN /\ \A key \in Keys : OnlyEvicted(evict(Cur(0), key), {key})
     /\ \A keys \in KeyLists : OnlyEvicted(evictKeys(Cur(0), keys), Elems(keys))
\* A persistent store holding entries and rows for a and b: evict(a) leaves
\* the row of a and the entry of b.
WitC13 ==
  /\ persistent /\ {"a", "b"} \subseteq DOMAIN cache /\ {"a", "b"} \subseteq DOMAIN db
  /\ LET r == evict(Cur(0), "a")
     IN DOMAIN r.s.cache = {"b"} /\ "a" \in DOMAIN r.s.db /\ r.s.db = db

\* What the row of the key is loaded as.
Decoded(s, key) == deserializer(s, eval(s.db[key]), key)

ThmC15 ==
  ~isDestroyed =>
    \A r \in {clear(Cur(0)), deleteAll(Cur(0))} :
      /\ r.err = ""
      /\ DOMAIN r.s.cache = {}
      /\ DOMAIN r.s.db = {}
      /\ \A key \in Keys :
           LET h == has(r.s, key, NoPath)
           IN h.err = "" /\ h.ret = Bool(FALSE) /\ DOMAIN h.s.cache = {}
\* A persistent store with autoFetch where a has an entry and a row and b
\* has a row only: after clear() neither is left.
WitC15 ==
  /\ persistent /\ autoFetch /\ ~isDestroyed
  /\ "a" \in DOMAIN cache /\ {"a", "b"} \subseteq DOMAIN db /\ "b" \notin DOMAIN cache
  /\ LET r == clear(Cur(0))
     IN r.err = "" /\ DOMAIN r.s.cache = {} /\ DOMAIN r.s.db = {}
        /\ has(r.s, "b", NoPath).ret = Bool(FALSE)

(***************************************************************************)
(* Arrays and numbers.                                                     *)
(***************************************************************************)
\* The part of a tree at a path of at most one segment.
TreeAt(tr, path) ==
  IF path = NoPath THEN tr
  ELSE IF path[1] \in DOMAIN tr.f THEN tr.f[path[1]] ELSE Absent
\* How often the tree x occurs among the elements of the array tree.
Occurrences(tr, x) == Cardinality({i \in DOMAIN tr.e : tr.e[i] = x})
\* The values a caller pushes: numbers, and the object it holds.
Pushed == {Num(1), Num(2)} \cup (IF IsRef(held) THEN {held} ELSE {})

\* C16: push(key, x, path) with allowDupes false: when the array already
\* holds an element equal to x the call changes neither cache nor rows;
\* else x becomes the last element after the earlier ones; and a second
\* push of the same x changes nothing, so that an array that held x at most
\* once holds it once.
CexC16 ==
  \A key \in DOMAIN cache, path \in AnyPath, x \in Pushed :
    LET before == TreeAt(Entry(Cur(0), key), path)
        r1 == push(Cur(0), key, x, path, FALSE)
        after == TreeAt(Entry(r1.s, key), path)
        r2 == push(r1.s, key, x, path, FALSE)
    IN r1.err = "" =>
         /\ Occurrences(before, View(heap, x)) > 0 => Observable(r1.s) = Observable(Cur(0))
         /\ Occurrences(before, View(heap, x)) = 0 =>
              after.e = Append(before.e, View(heap, x))
         /\ r2.err = "" /\ Observable(r2.s) = Observable(r1.s)
         /\ Occurrences(before, View(heap, x)) <= 1 =>
              Occurrences(TreeAt(Entry(r2.s, key), path), View(heap, x)) = 1

\* The number the operation is to give.
Expected(n, op, m) ==
  CASE op \in {"add", "addition", "+"} -> n + m
    [] op \in {"sub", "subtract", "-"} -> n - m
    [] op \in {"mult", "multiply", "*"} -> n * m
    [] op \in {"mod", "modulo", "%"} -> n % m
Operands == 1..2
\* The value at a path of the entry of a key.
Addressed(s, key, path) ==
  IF key \in DOMAIN s.cache THEN _get(s.heap, s.cache[key], path) ELSE Undef
\* get(key, path) after the call with result r
ThenRead(r, key, path) == Then(r, LAMBDA r1 : get(r1.s, key, path))

OperatorsOn(s, key, path) ==
  [push |-> push(s, key, Num(1), path, FALSE),
   math |-> math(s, key, "add", Num(1), path),
   inc |-> inc(s, key, path),
   dec |-> dec(s, key, path),
   remove |-> remove(s, key, Num(1), path),
   update |-> update(s, key, [fn |-> FALSE, tr |-> Patch])]
OperatorNames == {"push", "math", "inc", "dec", "remove", "update"}

\* C18: push, math, inc, dec, remove and update on a key with no entry and
\* no row fail with a PathError; the key is absent afterwards, and the cache
\* and the database are as they were.
CexC18 ==
  ~isDestroyed =>
    \A key \in Keys, path \in AnyPath, name \in OperatorNames :
      Missing(key) =>
        LET r == OperatorsOn(Cur(0), key, path)[name]
        IN /\ r.err = "PathError"
           /\ key \notin DOMAIN r.s.cache /\ key \notin DOMAIN r.s.db
           /\ Observable(r.s) = Observable(Cur(0))

\* The typed operators and the constructor name each requires of the value
\* it addresses; update takes no path.
TypedNames == {"push", "math", "inc", "dec", "update"}
Required(name) ==
  CASE name = "push" -> "Array"
    [] name \in {"math", "inc", "dec"} -> "Number"
    [] name = "update" -> "Object"
Addresses(name, path) == name \in TypedNames /\ (name = "update" => path = NoPath)
PlainObject(s, key) == isObject(s.cache[key]) /\ ~isArray(s.heap, s.cache[key])
\* The call threw the error named and left entries, rows and flags alone.
FailsUnchanged(r, err) == r.err = err /\ Observable(r.s) = Observable(Cur(0))

ThmC20 ==
  \A key \in BadKeys, lit \in Literals, path \in AnyPath, fail \in Fails :
    LET r == setLiteral(key, lit, path, fail)
    IN /\ r.err = "KeyTypeError"
       /\ r.s.cache = cache /\ r.s.db = db /\ r.s.counter = counter
       /\ Observable(r.s) = Observable(Cur(fail))
       /\ r.s.failIn = fail
       /\ r.s.calls = <<>>
\* A store with a change callback and an entry under a: set(a, 1) calls the
\* callback and replaces the entry, set(null, 1) and set(7, 1) throw.
WitC20 ==
  /\ ~isDestroyed /\ changedCB /\ "a" \in DOMAIN cache /\ cache["a"] # Num(1)
  /\ LET ok == setLiteral("a", Leaf(Num(1)), NoPath, 0)
     IN ok.err = "" /\ ok.s.calls # <<>> /\ ok.s.cache["a"] = Num(1)
  /\ setLiteral(NullKey, Leaf(Num(1)), NoPath, 0).err = "KeyTypeError"
  /\ setLiteral(NumberKey, Leaf(Num(1)), NoPath, 0).err = "KeyTypeError"

(***************************************************************************)
(* remove, update, delete with a path, autonum, export and import.         *)
(***************************************************************************)
\* criteria(element), on the tree of an element
TreeMatches(val, tr) ==
  IF val.t = "Function" THEN tr.t = "Number" /\ tr.v >= val.v ELSE tr = Leaf(val)
\* The elements without the first one that matches.
WithoutFirst(e, val) ==
  LET hit == {i \in DOMAIN e : TreeMatches(val, e[i])}
  IN IF hit = {} THEN e
     ELSE LET i == CHOOSE i \in hit : \A j \in hit : i <= j
          IN [j \in 1..(Len(e) - 1) |-> IF j < i THEN e[j] ELSE e[j + 1]]
\* The tree with the subtree at the path replaced.
TreeWith(tr, path, sub) ==
  IF path = NoPath THEN sub ELSE [tr EXCEPT !.f = (path[1] :> sub) @@ tr.f]
\* What a caller removes: a number, or what a predicate accepts.
Removed == {Num(1), Num(2), AtLeast(1), AtLeast(2)}

\* The text written for a value under a key, and: the row of the key is
\* the text of its entry (any store without a database counts).
TextOf(s, key, tr) == serialize(serializer(s, tr, key))
InSync(s, key) == s.persistent => Row(s, key) = TextOf(s, key, Entry(s, key))

\* C21: where key has an entry and the value at the path (or the entry) is
\* an array, remove(key, val, path) and remove(key, predicate, path) take
\* out the first element that equals val or satisfies the predicate, keep
\* the others in their order and the rest of the entry as it is; the row of
\* a persistent store, which was the text of the entry, is the text of the
\* new entry; with no match the entry and the row are as before.
ThmC21 ==
  ~isDestroyed =>
    \A key \in DOMAIN cache, path \in AnyPath, val \in Removed :
      LET entry == Entry(Cur(0), key)
          before == TreeAt(entry, path)
          r == remove(Cur(0), key, val, path)
          after == [before EXCEPT !.e = WithoutFirst(before.e, val)]
      IN (before # Absent /\ before.t = "Array" /\ InSync(Cur(0), key)) =>
           /\ r.err = ""
           /\ Entry(r.s, key) = TreeWith(entry, path, after)
           /\ persistent => Row(r.s, key) = TextOf(r.s, key, TreeWith(entry, path, after))
           /\ after = before => (Entry(r.s, key) = entry /\ Row(r.s, key) = Row(Cur(0), key))
           /\ LET g == ThenGet(r, key) IN View(g.s.heap, g.ret) = TreeWith(entry, path, after)
\* A persistent store whose key a holds [1, 2] and whose key b holds an
\* object with the array q = [1, 2]: remove(a, x => x >= 1) leaves [2],
\* remove(b, 2, 'q') leaves q = [1], remove(a, 3) leaves [1, 2].
WitC21 ==
  /\ ~isDestroyed /\ persistent /\ {"a", "b"} \subseteq DOMAIN cache
  /\ InSync(Cur(0), "a") /\ InSync(Cur(0), "b")
  /\ Entry(Cur(0), "a").t = "Array"
  /\ Entry(Cur(0), "a").e = <<Leaf(Num(1)), Leaf(Num(2))>>
  /\ Entry(remove(Cur(0), "a", AtLeast(1), NoPath).s, "a").e = <<Leaf(Num(2))>>
  /\ Entry(remove(Cur(0), "a", Num(3), NoPath).s, "a").e = <<Leaf(Num(1)), Leaf(Num(2))>>
  /\ Entry(Cur(0), "b").t = "Object" /\ TreeAt(Entry(Cur(0), "b"), <<"q">>) # Absent
  /\ TreeAt(Entry(Cur(0), "b"), <<"q">>).t = "Array"
  /\ TreeAt(Entry(Cur(0), "b"), <<"q">>).e = <<Leaf(Num(1)), Leaf(Num(2))>>
  /\ TreeAt(Entry(remove(Cur(0), "b", Num(2), <<"q">>).s, "b"), <<"q">>).e = <<Leaf(Num(1))>>

\* The partial objects a caller merges: { p: 2 }, { q: [2] }, { p: { q: 2 } }
Partials ==
  {Patch,
   [t |-> "Object", v |-> 0, f |-> [n \in {"q"} |-> [t |-> "Array", v |-> 0, f |-> NoFields, e |-> <<Leaf(Num(2))>>]], e |-> <<>>],
   [t |-> "Object", v |-> 0, f |-> [n \in {"p"} |-> [t |-> "Object", v |-> 0, f |-> [m \in {"q"} |-> Leaf(Num(2))], e |-> <<>>]], e |-> <<>>]}
\* { p: { p: 1, q: 1 }, q: 1 }
Nested ==
  [t |-> "Object", v |-> 0,
   f |-> [n \in {"p", "q"} |->
            IF n = "q" THEN Leaf(Num(1))
            ELSE [t |-> "Object", v |-> 0, f |-> [m \in {"p", "q"} |-> Leaf(Num(1))], e |-> <<>>]],
   e |-> <<>>]
\* The deep merge of a partial into a value, on trees: fields and elements
\* the partial does not name stay, those it names are merged where both
\* sides are containers and overwritten where not.
RECURSIVE DeepMerge(_, _)
DeepMerge(cur, part) ==
  IF IsLeaf(part) THEN part
  ELSE IF cur = Absent \/ IsLeaf(cur) \/ (part.t = "Array" /\ cur.t # "Array") THEN part
  ELSE [cur EXCEPT
          !.f = [n \in DOMAIN cur.f \cup DOMAIN part.f |->
                   IF n \notin DOMAIN part.f THEN cur.f[n]
                   ELSE DeepMerge(IF n \in DOMAIN cur.f THEN cur.f[n] ELSE Absent, part.f[n])],
          !.e = [i \in 1..(IF Len(cur.e) > Len(part.e) THEN Len(cur.e) ELSE Len(part.e)) |->
                   IF i > Len(part.e) THEN cur.e[i]
                   ELSE DeepMerge(IF i <= Len(cur.e) THEN cur.e[i] ELSE Absent, part.e[i])]]
\* The store after the call with result r is the tree under key, in the
\* cache and in the row, and the call returned it.
Stored(r, key, tr) ==
  /\ r.err = "" /\ Entry(r.s, key) = tr /\ View(r.s.heap, r.ret) = tr
  /\ r.s.persistent => Row(r.s, key) = TextOf(r.s, key, tr)

\* C22: where the entry of key is a plain object, update(key, partial)
\* stores and returns the deep merge of partial into the entry, and
\* update(key, fn) stores and returns what fn returns; the row of a
\* persistent store is the text of the result.  So also for an entry with a
\* nested object, right after set(key, { p: { p: 1, q: 1 }, q: 1 }).
ThmC22 ==
  ~isDestroyed =>
    \A key \in Keys, part \in Partials :
      /\ (key \in DOMAIN cache /\ Entry(Cur(0), key).t = "Object") =>
           /\ Stored(update(Cur(0), key, [fn |-> FALSE, tr |-> part]), key,
                     DeepMerge(Entry(Cur(0), key), part))
           /\ Stored(update(Cur(0), key, [fn |-> TRUE, tr |-> part]), key, part)
      /\ LET w == setLiteral(key, Nested, NoPath, 0)
         IN w.err = "" /\ Stored(update(w.s, key, [fn |-> FALSE, tr |-> part]), key,
                                 DeepMerge(Nested, part))
\* A persistent store whose key a holds { p: 1, q: [1, 2] }:
\* update(a, { q: [2] }) stores { p: 1, q: [2, 2] } and update(a, { p: 2 })
\* stores { p: 2, q: [1, 2] }.
WitC22 ==
  /\ ~isDestroyed /\ persistent /\ "a" \in DOMAIN cache
  /\ Entry(Cur(0), "a").t = "Object" /\ DOMAIN Entry(Cur(0), "a").f = {"p", "q"}
  /\ Entry(Cur(0), "a").f["p"] = Leaf(Num(1))
  /\ Entry(Cur(0), "a").f["q"].t = "Array"
  /\ Entry(Cur(0), "a").f["q"].e = <<Leaf(Num(1)), Leaf(Num(2))>>
  /\ \E part \in Partials :
       LET r == update(Cur(0), "a", [fn |-> FALSE, tr |-> part])
       IN r.err = "" /\ Entry(r.s, "a").f["q"].e = <<Leaf(Num(2)), Leaf(Num(2))>>
                     /\ Entry(r.s, "a").f["p"] = Leaf(Num(1))
  /\ Entry(update(Cur(0), "a", [fn |-> FALSE, tr |-> Patch]).s, "a").f["p"] = Leaf(Num(2))

\* The object tree without the field named.
TreeLess(tr, name) == [tr EXCEPT !.f = [n \in DOMAIN tr.f \ {name} |-> tr.f[n]]]

\* C23: where the entry of key is a plain object with a field at the path,
\* delete(key, path) returns; the entry is then the object without that
\* field, in the cache and in the row of a persistent store, the key is
\* still present and every other entry and row is as before.
CexC23 ==
  ~isDestroyed =>
    \A key \in DOMAIN cache, path \in Paths :
      LET entry == Entry(Cur(0), key)
          r == delete(Cur(0), key, path)
      IN (entry.t = "Object" /\ path[1] \in DOMAIN entry.f /\ InSync(Cur(0), key)) =>
           /\ r.err = ""
           /\ key \in DOMAIN r.s.cache /\ Entry(r.s, key) = TreeLess(entry, path[1])
           /\ r.s.persistent => Row(r.s, key) = TextOf(r.s, key, TreeLess(entry, path[1]))
           /\ \A other \in Keys \ {key} :
                Entry(r.s, other) = Entry(Cur(0), other) /\ Row(r.s, other) = Row(Cur(0), other)

\* C24: on a persistent store whose counter row holds the number n,
\* autonum writes n + 1 to the counter row and returns it, and the call
\* after it returns another value: successive calls never return the same.
CexC24 ==
  (persistent /\ ~isDestroyed) =>
    LET r1 == autonum(Cur(0))
        r2 == Then(r1, LAMBDA r : autonum(r.s))
    IN /\ r1.err = "" /\ r2.err = ""
       /\ r1.ret # r2.ret
       /\ (counter # Absent /\ counter.t = "Number") => r1.s.counter = Leaf(Num(counter.v + 1))

\* The keys of the store: of its cache and, with a database, of its rows.
StoreKeys(s) == DOMAIN s.cache \cup (IF s.persistent THEN DOMAIN s.db ELSE {})
\* The value of a key of the store: its entry, or else what its row decodes to.
ValueOf(s, key) == IF key \in DOMAIN s.cache THEN Entry(s, key) ELSE Decoded(s, key)
\* A store of the same name with nothing in it.
Fresh(s) == [s EXCEPT !.cache = NoEntries, !.db = NoRows]
\* The store r.s holds exactly the keys and values of the store s.
SameContent(r, s) ==
  /\ r.err = ""
  /\ DOMAIN r.s.cache = StoreKeys(s)
  /\ \A key \in StoreKeys(s) : Entry(r.s, key) = ValueOf(s, key)
  /\ r.s.persistent =>
       /\ DOMAIN r.s.db = StoreKeys(s)
       /\ \A key \in StoreKeys(s) : r.s.db[key] = TextOf(s, key, ValueOf(s, key))

Snapshots ==
  {[kind |-> "text", keys |-> [k \in ks |-> serialize(Leaf(Num(2)))]] : ks \in SUBSET Keys \ {{}}}

\* C26: import(text, false) returns; every key that had an entry, or a row
\* in a persistent store, has the value and the row it had; the keys of the
\* text that had neither are added with the text's value, and no other key
\* appears.
CexC26 ==
  ~isDestroyed =>
    \A text \in Snapshots :
      LET r == import(Cur(0), text, FALSE, FALSE)
      IN /\ r.err = ""
         /\ \A key \in StoreKeys(Cur(0)) :
              /\ key \in StoreKeys(r.s) /\ ValueOf(r.s, key) = ValueOf(Cur(0), key)
              /\ Row(r.s, key) = Row(Cur(0), key)
         /\ \A key \in Keys \ StoreKeys(Cur(0)) :
              IF key \in DOMAIN text.keys
              THEN Entry(r.s, key) = Leaf(Num(2)) /\ (persistent => r.s.db[key] = TextOf(r.s, key, Leaf(Num(2))))
              ELSE key \notin StoreKeys(r.s)

\* C27: import of null, undefined or of a text that is no export throws an
\* ImportError and leaves entries and rows as they were, whatever the
\* overwrite and clear flags.
CexC27 ==
  ~isDestroyed =>
    \A kind \in {"nil", "invalid"}, overwrite \in BOOLEAN, clr \in BOOLEAN :
      LET r == importData(kind, overwrite, clr, 0)
      IN r.err = "ImportError" /\ Observable(r.s) = Observable(Cur(0))

(***************************************************************************)
(* The hooks and the codec.                                                *)
(***************************************************************************)
\* What the hooks of this store make of a value: { ...data, p: 3 } before
\* it is written, { ...data, p: 1 } after it is read.
Written(tr) == SpreadWith(tr, "p", Num(3))
Loaded(tx) == SpreadWith(eval(tx), "p", Num(1))

\* C28: on a persistent store with hooks, after set(key, v) the row of the
\* key is the text of serializer(v, key) and the entry is v itself; after
\* any write that returned, on a key whose entry was no array, the row is
\* the text of serializer(entry, key); and has, get, fetch and
\* fetchEverything load a row as deserializer(decoded text, key).
ThmC28 ==
  (hooks /\ persistent /\ ~isDestroyed) =>
    /\ \A key \in Keys :
         Entry(Cur(0), key).t # "Array" =>
           \A r \in WritesOn(key, 0) :
             (r.err = "" /\ key \in DOMAIN r.s.cache) =>
               Row(r.s, key) = serialize(Written(Entry(r.s, key)))
    /\ \A key \in Keys, tr \in ValuesC1 :
         LET b == Build(heap, tr)
             r == set([Cur(0) EXCEPT !.heap = b.h], key, b.v, NoPath)
         IN r.err = "" /\ Entry(r.s, key) = tr /\ Row(r.s, key) = serialize(Written(tr))
    /\ \A key \in DOMAIN db \ DOMAIN cache :
         \A r \in {has(Cur(0), key, NoPath), get(Cur(0), key, NoPath), fetch(Cur(0), key)} :
           /\ r.err = "" /\ Entry(r.s, key) = Loaded(db[key])
           /\ r.ret = Bool(TRUE) \/ View(r.s.heap, r.ret) = Loaded(db[key])
    /\ LET r == fetchEverything(Cur(0))
       IN r.err = "" /\ \A key \in DOMAIN db : Entry(r.s, key) = Loaded(db[key])
\* A store with hooks in which key a has the row of an array and no entry:
\* get(a) returns { 0: 1, p: 1 }, and set(b, {}) leaves {} in the cache and
\* the text of { p: 3 } in the row.
WitC28 ==
  /\ hooks /\ persistent /\ ~isDestroyed
  /\ "a" \in DOMAIN db /\ "a" \notin DOMAIN cache /\ db["a"] = serialize(Written(Arr1))
  /\ LET g == get(Cur(0), "a", NoPath)
     IN g.err = "" /\ View(g.s.heap, g.ret) = SpreadWith(Written(Arr1), "p", Num(1))
                   /\ View(g.s.heap, g.ret) # Arr1
  /\ LET r == setLiteral("b", EmptyObj, NoPath, 0)
     IN r.err = "" /\ Entry(r.s, "b") = EmptyObj /\ eval(Row(r.s, "b")) = Written(EmptyObj)
                   /\ Written(EmptyObj) # EmptyObj

\* The calls that go through set: set itself (with a path where the entry
\* is no array), math and remove.
ThroughSet(key) ==
  {setLiteral(key, lit, NoPath, 0) : lit \in Literals}
    \cup (IF Entry(Cur(0), key).t = "Array" THEN {}
          ELSE {setLiteral(key, Leaf(Num(2)), path, 0) : path \in Paths})
    \cup {mathTwo(key, op, path, 0) : op \in MathNames, path \in AnyPath}
    \cup {removeOne(key, path, 0) : path \in AnyPath}

\* C30: when set, math or remove on a key returns, each invocation of the
\* change callback it made was given the key, as oldValue the value the key
\* held before the call (null where it had neither entry nor row) and as
\* newValue the value the key holds after the call.
CexC30 ==
  (changedCB /\ ~isDestroyed) =>
    \A key \in Keys :
      (key \in DOMAIN cache \/ Missing(key)) =>
        \A r \in ThroughSet(key) :
          r.err = "" =>
            /\ r.s.calls # <<>>
            /\ \A i \in DOMAIN r.s.calls :
                 /\ r.s.calls[i].key = key
                 /\ r.s.calls[i].oldValue =
                      (IF key \in DOMAIN cache THEN Entry(Cur(0), key) ELSE Leaf(Null))
                 /\ r.s.calls[i].newValue = Entry(r.s, key)

(***************************************************************************)
(* The change callback and the operators; delete; keys; presence.          *)
(***************************************************************************)
\* The calls on key that are to notify: set, push, math, inc, dec, remove
\* and delete with a path.
Notifying(key) ==
  {setLiteral(key, lit, NoPath, 0) : lit \in Literals}
    \cup {setLiteral(key, Leaf(Num(2)), path, 0) : path \in Paths}
    \cup {pushTwo(key, path, d, 0) : path \in AnyPath, d \in BOOLEAN}
    \cup {mathTwo(key, op, path, 0) : op \in MathNames, path \in AnyPath}
    \cup {inc(Cur(0), key, path) : path \in AnyPath}
    \cup {dec(Cur(0), key, path) : path \in AnyPath}
    \cup {removeOne(key, path, 0) : path \in AnyPath}
    \cup {delete(Cur(0), key, path) : path \in Paths}
\* The call returned and the entry or the row of key is another than before.
Mutated(r, key) ==
  /\ r.err = ""
  /\ \/ Entry(r.s, key) # Entry(Cur(0), key)
     \/ Row(r.s, key) # Row(Cur(0), key)
\* How many times the change callback ran for key during the call.
Notified(r, key) == Cardinality({i \in DOMAIN r.s.calls : r.s.calls[i].key = key})

\* C31: with a change callback registered, every call of set, push, math,
\* inc, dec, remove or delete with a path that returns and changes the entry
\* or the row of its key runs the callback exactly once for that key.
CexC31 ==
  (changedCB /\ ~isDestroyed) =>
    \A key \in Keys : \A r \in Notifying(key) :
      Mutated(r, key) => Notified(r, key) = 1

GivenAs(key) == IF key = "a" THEN {"a", NumberA} ELSE {key}
\* What a call leaves behind and returns, as a caller can tell.
Outcome(r) == [store |-> Observable(r.s), ret |-> View(r.s.heap, r.ret), err |-> r.err]
\* The lookups by key: get, has, delete without a path, evict.
Lookups(s, key) ==
  [get |-> Outcome(get(s, key, NoPath)), has |-> Outcome(has(s, key, NoPath)),
   delete |-> Outcome(delete(s, key, NoPath)), evict |-> Outcome(evict(s, key))]
LookupNames == {"get", "has", "delete", "evict"}

\* C33: every key of the cache is a string, and a lookup (get, has, delete,
\* evict) with a key given as a number does what it does with the key given
\* as that number's string form.
CexC33 ==
  /\ \A key \in DOMAIN cache : KeyConstructorName(key) = "String"
  /\ \A key \in Keys : \A given \in GivenAs(key) : \A name \in LookupNames :
       Lookups(Cur(0), given)[name] = Lookups(Cur(0), key)[name]

\* A key exists in a store: it has an entry or a row.
Present(s, key) == key \in DOMAIN s.cache \/ key \in DOMAIN s.db
\* The calls of the operators on key whose write number fail throws.
OperatorCalls(key, fail) ==
  {pushTwo(key, path, d, fail) : path \in AnyPath, d \in BOOLEAN}
    \cup {mathTwo(key, op, path, fail) : op \in MathNames, path \in AnyPath}
    \cup {inc(Cur(fail), key, path) : path \in AnyPath}
    \cup {dec(Cur(fail), key, path) : path \in AnyPath}
    \cup {removeOne(key, path, fail) : path \in AnyPath}
    \cup {updatePatch(key, fn, fail) : fn \in BOOLEAN}
\* The calls that are to leave the presence of key as it is: has, the
\* operators whether they return or throw, and evict on a store that is not
\* persistent.
PresenceKeeping(key) ==
  {has(Cur(0), key, path) : path \in AnyPath}
    \cup UNION {OperatorCalls(key, fail) : fail \in Fails}
    \cup (IF persistent THEN {} ELSE {evict(Cur(0), key)})

\* C34: on a live store no call of has, push, math, inc, dec, remove or
\* update on a key, returning or throwing, and no evict on a store that is
\* not persistent, makes an absent key present or a present key absent; and
\* none of these calls changes the presence of another key.
CexC34 ==
  ~isDestroyed =>
    \A key \in Keys : \A r \in PresenceKeeping(key) : \A k \in Keys :
      Present(r.s, k) = Present(Cur(0), k)

\* Two results leave the same store behind and both return or both throw
\* the same error.
SameEffect(r1, r2) == Observable(r1.s) = Observable(r2.s) /\ r1.err = r2.err

\* C35: from every state, for every key and path (or none), and whichever
\* backing-store write fails, inc(key, path) leaves the cache and the rows
\* as math(key, 'add', 1, path) does, and dec(key, path) as
\* math(key, 'sub', 1, path) does, and each pair throws alike.
ThmC35 ==
  \A key \in Keys, path \in AnyPath, fail \in Fails :
    /\ SameEffect(inc(Cur(fail), key, path), math(Cur(fail), key, "add", Num(1), path))
    /\ SameEffect(dec(Cur(fail), key, path), math(Cur(fail), key, "sub", Num(1), path))
\* A persistent store whose entry a is the number 1 and whose entry b is an
\* object with p = 1: inc(a) and inc(b, p) return, and make them 2.
WitC35 ==
  /\ persistent /\ ~isDestroyed
  /\ Entry(Cur(0), "a") = Leaf(Num(1))
  /\ "b" \in DOMAIN cache /\ Addressed(Cur(0), "b", <<"p">>) = Num(1)
  /\ LET r == inc(Cur(0), "a", NoPath)
         q == dec(Cur(0), "b", <<"p">>)
     IN /\ r.err = "" /\ Entry(r.s, "a") = Leaf(Num(2)) /\ Row(r.s, "a") # Row(Cur(0), "a")
        /\ q.err = "" /\ Addressed(q.s, "b", <<"p">>) = Num(0)

(***************************************************************************)
(* inc and dec as math; has with a path; the frame of set; reads; the      *)
(* default.                                                                *)
(***************************************************************************)
\* The paths a caller asks has about: a name, or an index.
HasPaths == Paths \cup {<<"0">>}
\* A one-segment path names a property or an element of the container tr.
Resolves(tr, path) ==
  /\ tr.t \in {"Object", "Array"}
  /\ \/ path[1] \in DOMAIN tr.f
     \/ isIndex(path[1]) /\ IndexOf(path[1]) + 1 \in DOMAIN tr.e

\* C36: on a live store has(key, path) returns, for every key and path: true
\* where the key exists once the autofetch has run, its value is an object
\* or an array and the path resolves in it, false otherwise (a key that
\* does not exist included); the rows and the entries already cached are as
\* before.
CexC36 ==
  ~isDestroyed =>
    \A key \in Keys, path \in HasPaths :
      LET f == hasKey(Cur(0), key)
          r == has(Cur(0), key, path)
      IN /\ r.err = ""
         /\ r.ret = Bool(f.ret = Bool(TRUE) /\ Resolves(Entry(f.s, key), path))
         /\ r.s.db = db
         /\ \A k \in DOMAIN cache : Entry(r.s, k) = Entry(Cur(0), k)

\* The paths a caller writes through: a name or an index, or two segments
\* with a name or an index last.
SetPaths == Paths \cup {<<"0">>, <<"1">>, <<"p", "q">>, <<"q", "0">>}
EmptyArr == [t |-> "Array", v |-> 0, f |-> NoFields, e |-> <<>>]
\* The container tr with sub under the segment: an element of an array
\* where the segment is an index, else a property.
Put(tr, seg, sub) ==
  IF tr.t = "Array" /\ isIndex(seg)
  THEN [tr EXCEPT !.e = [j \in 1..(IF IndexOf(seg) < Len(tr.e) THEN Len(tr.e)
                                   ELSE IndexOf(seg) + 1) |->
                           IF j = IndexOf(seg) + 1 THEN sub
                           ELSE IF j <= Len(tr.e) THEN tr.e[j] ELSE Leaf(Undef)]]
  ELSE [tr EXCEPT !.f = (seg :> sub) @@ tr.f]
\* What is under a segment of a container, Absent where there is nothing.
Under(tr, seg) ==
  IF tr.t = "Array" /\ isIndex(seg)
  THEN IF IndexOf(seg) + 1 \in DOMAIN tr.e THEN tr.e[IndexOf(seg) + 1] ELSE Absent
  ELSE IF seg \in DOMAIN tr.f THEN tr.f[seg] ELSE Absent
\* The object tr after a write of sub at the path, where a missing
\* intermediate (or one that is no container) becomes the container made.
WrittenAt(tr, path, sub, made) ==
  IF Len(path) = 1 THEN Put(tr, path[1], sub)
  ELSE LET cur == Under(tr, path[1])
           base == IF cur.t \in {"Object", "Array"} THEN cur ELSE made
       IN Put(tr, path[1], Put(base, path[2], sub))
\* Each segment addresses its container in kind: an index into an array, a
\* name into an object.
InKind(tr, path) ==
  /\ tr.t \in {"Object", "Array"}
  /\ tr.t = "Array" => isIndex(path[1])
  /\ Len(path) = 2 =>
       LET cur == Under(tr, path[1])
       IN (cur.t = "Array") => isIndex(path[2])
\* The value set works on: the entry, fetched or materialised where missing.
Before(key) == LET g == getValue(Cur(0), key) IN View(g.s.heap, g.ret)
\* set(key, lit, path) returned, the keys other than key are as they were,
\* and the entry of key is the tree after.
SetGives(key, lit, path, after) ==
  LET r == setLiteral(key, lit, path, 0)
  IN /\ r.err = ""
     /\ \A k \in Keys \ {key} : Entry(r.s, k) = Entry(Cur(0), k) /\ Row(r.s, k) = Row(Cur(0), k)
     /\ Entry(r.s, key) = after
     /\ persistent => Row(r.s, key) = TextOf(r.s, key, after)

\* C37 as stated: set(key, v, path) on an object or an array writes v at
\* the path, every missing intermediate being created as an empty object,
\* and leaves the other fields of the value and every other key as they
\* were.
CexC37 ==
  ~isDestroyed =>
    \A key \in Keys, path \in SetPaths, lit \in Literals :
      InKind(Before(key), path) =>
        SetGives(key, lit, path, WrittenAt(Before(key), path, lit, EmptyObj))

\* C37, amended: set(key, v, path) on an object or an array writes v at
\* the path, a missing intermediate being created as an empty array where
\* the segment after it is an index and as an empty object otherwise, and
\* leaves the other fields of the value and every other key as they were;
\* on a value that is no container it changes nothing.
ThmC37 ==
  ~isDestroyed =>
    \A key \in Keys, path \in SetPaths, lit \in Literals :
      /\ InKind(Before(key), path) =>
           SetGives(key, lit, path,
                    WrittenAt(Before(key), path, lit,
                              IF isIndex(path[Len(path)]) THEN EmptyArr ELSE EmptyObj))
      /\ Before(key).t \notin {"Object", "Array"} =>
           SetGives(key, lit, path, Before(key))
\* A persistent store where a is { p: 1, q: [1] } and b has an entry:
\* set(a, [1], p.q) makes p the object { q: [1] } and keeps q; and b has no
\* q, so set(b, 1, q.0) makes it the array [1].
WitC37 ==
  /\ persistent /\ ~isDestroyed
  /\ Entry(Cur(0), "a") = BaseObj
  /\ "b" \in DOMAIN cache /\ Before("b").t = "Object" /\ Under(Before("b"), "q") = Absent
  /\ LET r == setLiteral("a", Arr1, <<"p", "q">>, 0)
         q == setLiteral("b", Leaf(Num(1)), <<"q", "0">>, 0)
     IN /\ r.err = "" /\ Under(Under(Entry(r.s, "a"), "p"), "q") = Arr1
        /\ Under(Entry(r.s, "a"), "q") = Arr1
        /\ q.err = "" /\ Under(Entry(q.s, "b"), "q") = Arr1

\* The reads of a key: get(key), has(key) and get(key, path).
Reads(key) ==
  {get(Cur(0), key, path) : path \in AnyPath} \cup {has(Cur(0), key, NoPath)}

\* C38: on a persistent store no get(key), has(key) or get(key, path)
\* changes the row of a key that has one, with autoFetch on or off and the
\* key cached or not.
CexC38 ==
  (persistent /\ ~isDestroyed) =>
    \A key \in DOMAIN db : \A r \in Reads(key) : Row(r.s, key) = Row(Cur(0), key)

\* The default the store was constructed with: the one given, else {}.
GivenDefault == IF options.default = Leaf(Undef) THEN EmptyObj ELSE options.default

\* C39: no call on a key changes the configured default or the value of
\* another key, and while the caller holds no object of the store the
\* default is the one given at construction.
CexC39 ==
  /\ heldOrigin = "none" => View(heap, default) = GivenDefault
  /\ ~isDestroyed =>
       \A key \in Keys : \A r \in CallsOn(key) :
         /\ View(r.s.heap, r.s.default) = View(heap, default)
         /\ \A k \in DOMAIN cache \ {key} : Entry(r.s, k) = Entry(Cur(0), k)

\* C40: in a store constructed without a default, get(key) on a key with
\* neither entry nor row returns undefined and creates nothing: has(key) is
\* false afterwards, the cache has the keys it had and key has no row; and a
\* set(key, v) whose write fails leaves no row of key behind.
CexC40 ==
  (options.default = Leaf(Undef) /\ ~isDestroyed) =>
    \A key \in Keys :
      Missing(key) =>
        /\ LET r == get(Cur(0), key, NoPath)
           IN /\ r.err = "" /\ isNil(r.ret)
              /\ hasKey(r.s, key).ret = Bool(FALSE)
              /\ DOMAIN r.s.cache = DOMAIN cache
              /\ Row(r.s, key) = Absent
        /\ \A lit \in Literals, fail \in Fails :
             LET w == setLiteral(key, lit, NoPath, fail)
             IN /\ w.err = "" => Entry(w.s, key) = lit
                /\ w.err # "" => Row(w.s, key) = Absent

=============================================================================
